---- MODULE Spec2Model ----
(***************************************************************************)
(* A model of the weather-forecast client: the forecast-day aggregation    *)
(* of js/api.js, the preference store of js/storage.js and the event       *)
(* handlers of js/app.js.                                                  *)
(*                                                                         *)
(* Time is in milliseconds as in the source.  A date key (the date part of *)
(* Date.toISOString()) is represented by the UTC day number since the      *)
(* epoch: the ISO text YYYY-MM-DD is an injective, order-preserving        *)
(* rendering of that number, and the code uses the key only for equality.  *)
(***************************************************************************)
EXTENDS Integers, Sequences, FiniteSets, TLC

VARIABLES
    fcTz,       \* host time-zone offset in hours (Date.getHours is local time)
    fcInput,    \* data.list: the provider's samples, each [dt |-> seconds]
    fcOutput,   \* the array formatForecast returned
    fcDone,     \* TRUE once formatForecast has run on fcInput
    ls,         \* localStorage: key -> stored text
    now,        \* Date.now()
    ret,        \* the outcome of the last call of an exported store function
    searchText,         \* elements.citySearch.value
    clearBtnVisible,    \* elements.clearBtn has class visible
    suggestionsVisible, \* elements.suggestions has class visible
    suggestions,        \* the cities listed in elements.suggestions
    debounceTimer,      \* the handle kept in debounceTimer (0: null)
    timers,             \* the timeouts set and neither fired nor cleared
    searches,           \* the searchCities requests in flight
    inputCount,         \* history: the number of input events so far
    lastInputAt,        \* history: the time of the latest input event
    lastInputTimer,     \* history: the timeout the latest input event set (0: none)
    lookups,            \* slot -> a loadWeatherData(ByCoords) call awaiting Promise.all
    settled,            \* history: how the latest Promise.all settled, and
                        \* whether another call rendered while it was in flight
                        \* (the weather content, hidden at the start of every
                        \* call, was visible again when it settled)
    geoPending,         \* the number of getCurrentPosition requests outstanding
    currentCity,        \* the module variable currentCity
    shown,              \* what displayWeather last wrote into the page
    loadingVisible,     \* elements.loading has class visible
    errorVisible,       \* elements.errorMessage has class visible
    errorText,          \* elements.errorText.textContent
    weatherVisible,     \* elements.weatherContent has class visible
    favoriteBtnActive,  \* elements.favoriteBtn has class active
    wxData,             \* the record the provider sent for the current weather
    wxResult,           \* what formatCurrentWeather made of it
    wxSymbol,           \* what getWeatherIcon returned for the formatted icon
    wxStep,             \* "received", "formatted", "failed", "displayed"
    dataTheme           \* the data-theme attribute of the document element

fcVars == <<fcTz, fcInput, fcOutput, fcDone>>
wxVars == <<wxData, wxResult, wxSymbol, wxStep>>
pgVars == <<dataTheme>>
stVars == <<ls, now, ret>>
seVars == <<searchText, clearBtnVisible, suggestionsVisible, suggestions,
            debounceTimer, timers, searches, inputCount, lastInputAt,
            lastInputTimer>>
apVars == <<lookups, settled, geoPending, currentCity, shown, loadingVisible,
            errorVisible, errorText, weatherVisible, favoriteBtnActive>>

vars == <<fcTz, fcInput, fcOutput, fcDone, ls, now, ret, searchText,
          clearBtnVisible, suggestionsVisible, suggestions, debounceTimer,
          timers, searches, inputCount, lastInputAt, lastInputTimer, lookups,
          settled, geoPending, currentCity, shown, loadingVisible, errorVisible,
          errorText, weatherVisible, favoriteBtnActive, wxData, wxResult,
          wxSymbol, wxStep, dataTheme>>

----------------------------------------------------------------------------
(* Bounds of the model *)

\* longest provider list explored
MaxLen == 6
\* last value of the clock
MaxNow == 2
\* longest favorites list to which addFavoriteCity is applied
MaxFavorites == 2
\* number of input events on the search box
MaxInputs == 3
\* number of loadWeatherData / loadWeatherDataByCoords calls in flight
MaxLookups == 2
\* wind speeds, in m/s
MaxSpeed == 12
\* number of getCurrentPosition requests outstanding
MaxPositions == 2

----------------------------------------------------------------------------
(* js/api.js: formatForecast *)

\* slice(0, 5)
MaxForecastDays == 5
\* Math.abs(hour - 12)
Noon == 12

MsPerSecond == 10 * 10 * 10
SecondsPerHour == 60 * 60
HoursPerDay == 2 * Noon
MsPerHour == SecondsPerHour * MsPerSecond
MsPerDay == HoursPerDay * MsPerHour

Abs(n) == IF n < 0 THEN -n ELSE n

\* item.dt * 1000
ItemTimestamp(item) == item.dt * MsPerSecond

\* new Date(ts).toISOString().split('T')[0]: the UTC calendar day of ts
DateKey(ts) == ts \div MsPerDay

\* new Date(ts).getHours(): the hour of day in the host's local time
GetHours(ts, tz) == ((ts \div MsPerHour) + tz) % HoursPerDay

\* Math.abs(hour - 12)
NoonDistance(ts, tz) == Abs(GetHours(ts, tz) - Noon)

\* position of dateKey among the keys of dailyForecasts (0: not a key)
KeyIndex(df, dateKey) ==
    IF \E i \in 1..Len(df) : df[i].date = dateKey
    THEN CHOOSE i \in 1..Len(df) : df[i].date = dateKey
    ELSE 0

\* variants of the comparison: non-strict, and reversed
CloserOrEqual(a, b) == a <= b
Farther(a, b) == a > b

\* the strict comparison of the replacement test
Closer(a, b) == a < b

\* !dailyForecasts[dateKey] || Math.abs(hour - 12) < Math.abs(<recorded hour> - 12)
Replaces(df, item, tz) ==
    LET ts == ItemTimestamp(item)
        k  == KeyIndex(df, DateKey(ts))
    IN  \/ k = 0
        \/ Closer(NoonDistance(ts, tz), NoonDistance(df[k].timestamp, tz))

\* dailyForecasts[dateKey] = {...}: a new string key is appended in insertion
\* order, an existing key keeps its position and takes the new value
Assign(df, entry) ==
    LET k == KeyIndex(df, entry.date)
    IN  IF k = 0 THEN Append(df, entry) ELSE [df EXCEPT ![k] = entry]

\* speed * 3.6 rounded down
KmhFloor(speed) == (speed * 36) \div 10

\* Math.round(speed * 3.6), for speed a natural number of m/s: the nearest
\* integer, a half rounded up
KmhRounded(speed) == (speed * 36 + 5) \div 10

\* the body of the forEach callback
Visit(df, item, tz) ==
    IF Replaces(df, item, tz)
    THEN Assign(df, [date |-> DateKey(ItemTimestamp(item)),
                     timestamp |-> ItemTimestamp(item),
                     windSpeed |-> KmhRounded(item.wind.speed)])
    ELSE df

\* data.list.forEach(...): items are visited in list order
RECURSIVE ForEach(_, _, _, _)
ForEach(list, i, df, tz) ==
    IF i > Len(list) THEN df
    ELSE ForEach(list, i + 1, Visit(df, list[i], tz), tz)

Min(a, b) == IF a < b THEN a ELSE b

ObjectValuesUnsliced(df) == df

\* Object.values(dailyForecasts).slice(0, 5): values in key insertion order
ObjectValuesSlice(df) == SubSeq(df, 1, Min(MaxForecastDays, Len(df)))

FormatForecast(list, tz) == ObjectValuesSlice(ForEach(list, 1, <<>>, tz))

----------------------------------------------------------------------------
(* JavaScript values.  A value is tagged with its type; an object is a     *)
(* record holding exactly its own properties, so a property that is absent *)
(* reads as undefined.  An element of an array is a tagged value or, for   *)
(* an object, the record of its own properties.                            *)

Undefined == [t |-> "undefined"]
Null == [t |-> "null"]
Bool(b) == [t |-> "boolean", v |-> b]
Num(n) == [t |-> "number", v |-> n]
Str(s) == [t |-> "string", v |-> s]
Obj(o) == [t |-> "object", v |-> o]
List(l) == [t |-> "array", v |-> l]
\* the number NaN
NaN == [t |-> "NaN"]
\* a function object inherited from Object.prototype, told by the property
\* that holds it
Function(name) == [t |-> "function", v |-> name]
\* the name of that function: the function held by constructor is Object, the
\* others are named as their property
FunctionName(property) == IF property = "constructor" THEN "Object" ELSE property
\* an object with a circular reference: JSON.stringify throws on it
Cyclic == [t |-> "cyclic"]

EmptyObject == <<>>

\* the operand of !x and of x || y
Falsy(x) ==
    \/ x.t \in {"undefined", "null", "NaN"}
    \/ x.t = "number" /\ x.v = 0
    \/ x.t = "string" /\ x.v = ""
    \/ x.t = "boolean" /\ ~x.v

\* {...a, ...b}: the properties of b override those of a
Spread(a, b) ==
    [f \in DOMAIN a \cup DOMAIN b |-> IF f \in DOMAIN b THEN b[f] ELSE a[f]]

\* ...x inside an object literal: undefined and null spread to nothing
OwnProperties(x) == IF x.t = "object" THEN x.v ELSE EmptyObject

\* an element of an array is a tagged value, not the record of an object
Tagged(e) == "t" \in DOMAIN e

Digit(d) ==
    CASE d = 0 -> "0" [] d = 1 -> "1" [] d = 2 -> "2" [] d = 3 -> "3"
      [] d = 4 -> "4" [] d = 5 -> "5" [] d = 6 -> "6" [] d = 7 -> "7"
      [] d = 8 -> "8" [] d = 9 -> "9"

\* String(n), for an integer n
RECURSIVE NumberToString(_)
NumberToString(n) ==
    IF n < 0 THEN "-" \o NumberToString(-n)
    ELSE IF n < 10 THEN Digit(n)
    ELSE NumberToString(n \div 10) \o Digit(n % 10)

\* String(x): an array is the join of its elements with ",", null and
\* undefined elements giving the empty text
RECURSIVE StringOf(_)
StringOf(x) ==
    LET Element(e) ==
            IF ~Tagged(e) THEN "[object Object]"
            ELSE IF e.t \in {"undefined", "null"} THEN ""
            ELSE StringOf(e)
        Join[i \in 0..Len(x.v)] ==
            IF i = 0 THEN ""
            ELSE IF i = 1 THEN Element(x.v[1])
            ELSE Join[i - 1] \o "," \o Element(x.v[i])
    IN  CASE x.t = "string" -> x.v
          [] x.t = "number" -> NumberToString(x.v)
          [] x.t = "boolean" -> IF x.v THEN "true" ELSE "false"
          [] x.t = "array" -> Join[Len(x.v)]
          [] x.t = "function" ->
                "function " \o FunctionName(x.v) \o "() { [native code] }"
          [] x.t \in {"object", "cyclic"} -> "[object Object]"
          [] OTHER -> x.t

\* the numbers whose decimal numerals the conversion of a text reads
Numerals == 0..(10 * 10 * 10)

\* Number(text): 0 for an empty or blank text, the number for a decimal
\* numeral, NaN for the other texts of the model
StringToNumber(text) ==
    IF text \in {"", " "} THEN Num(0)
    ELSE IF \E n \in Numerals : NumberToString(n) = text
    THEN Num(CHOOSE n \in Numerals : NumberToString(n) = text)
    ELSE NaN

\* Number(x), the conversion the arithmetic operators and Math.round apply:
\* null is 0, true is 1, a text and an array are converted by way of String
ToNumber(x) ==
    CASE x.t = "number" -> x
      [] x.t = "null" -> Num(0)
      [] x.t = "boolean" -> Num(IF x.v THEN 1 ELSE 0)
      [] x.t \in {"string", "array"} -> StringToNumber(StringOf(x))
      [] OTHER -> NaN

\* String.prototype.toLowerCase on the city names of the model
ToLowerCase(s) ==
    CASE s = "Paris" -> "paris"
      [] s = "PARIS" -> "paris"
      [] s = "London" -> "london"
      [] OTHER -> s

----------------------------------------------------------------------------
(* js/api.js: formatCurrentWeather and getWeatherIcon.  The record of the  *)
(* provider is a value whose objects, arrays and leaves are all tagged.    *)

\* x cannot be read from: x.f throws a TypeError
Unreadable(x) == x.t \in {"undefined", "null"}

\* x.f for x an object or an array (x["0"] is the first element); undefined
\* when x has no such property
Prop(x, f) ==
    IF x.t = "object" /\ f \in DOMAIN x.v THEN x.v[f]
    ELSE IF x.t = "array" /\ f = "0" /\ Len(x.v) >= 1 THEN x.v[1]
    ELSE Undefined

\* Math.round(x): x converted to a number, an integer of the model being its
\* own rounding
MathRound(x) == ToNumber(x)

\* Math.round(x * 3.6)
RoundKmh(x) ==
    IF ToNumber(x) = NaN THEN NaN ELSE Num(KmhRounded(ToNumber(x).v))

\* x * 1000
ToMilliseconds(x) ==
    IF ToNumber(x) = NaN THEN NaN ELSE Num(ToNumber(x).v * MsPerSecond)

FormatCurrentWeather(data) ==
    LET sys == Prop(data, "sys")
        main == Prop(data, "main")
        wind == Prop(data, "wind")
        weather == Prop(data, "weather")
        first == Prop(weather, "0")
        coord == Prop(data, "coord")
    IN  IF \E x \in {data, sys, main, wind, weather, first, coord} : Unreadable(x)
        THEN [threw |-> TRUE, val |-> Undefined]
        ELSE [threw |-> FALSE,
              val |-> Obj([city |-> Prop(data, "name"),
                           country |-> Prop(sys, "country"),
                           temperature |-> MathRound(Prop(main, "temp")),
                           feelsLike |-> MathRound(Prop(main, "feels_like")),
                           humidity |-> Prop(main, "humidity"),
                           pressure |-> Prop(main, "pressure"),
                           windSpeed |-> RoundKmh(Prop(wind, "speed")),
                           description |-> Prop(first, "description"),
                           icon |-> Prop(first, "icon"),
                           main |-> Prop(first, "main"),
                           timestamp |-> ToMilliseconds(Prop(data, "dt")),
                           sunrise |-> ToMilliseconds(Prop(sys, "sunrise")),
                           sunset |-> ToMilliseconds(Prop(sys, "sunset")),
                           coords |-> Obj([lat |-> Prop(coord, "lat"),
                                           lon |-> Prop(coord, "lon")])])]

\* the own properties of iconMap
KnownIconCodes ==
    {"01d", "01n", "02d", "02n", "03d", "03n", "04d", "04n", "09d", "09n",
     "10d", "10n", "11d", "11n", "13d", "13n", "50d", "50n"}

\* iconMap[code] for an own property; the emoji are written by their names
IconMap(code) ==
    CASE code = "01d" -> "sun"
      [] code = "01n" -> "crescent moon"
      [] code = "02d" -> "sun behind cloud"
      [] code \in {"02n", "03d", "03n", "04d", "04n"} -> "cloud"
      [] code \in {"09d", "09n", "10n"} -> "cloud with rain"
      [] code = "10d" -> "sun behind rain cloud"
      [] code \in {"11d", "11n"} -> "cloud with lightning and rain"
      [] code \in {"13d", "13n"} -> "snowflake"
      [] code \in {"50d", "50n"} -> "fog"

FallbackIcon == "thermometer"

\* the methods an object literal inherits from Object.prototype
ObjectPrototypeMethods ==
    {"constructor", "toString", "toLocaleString", "valueOf", "hasOwnProperty",
     "isPrototypeOf", "propertyIsEnumerable", "__defineGetter__",
     "__defineSetter__", "__lookupGetter__", "__lookupSetter__"}

\* the properties an object literal inherits from Object.prototype: its
\* methods, and __proto__, which reads as Object.prototype itself
ObjectPrototypeKeys == ObjectPrototypeMethods \cup {"__proto__"}

ObjectPrototype == Obj([k \in ObjectPrototypeMethods |-> Function(k)])

\* the property key a value is converted to
ToPropertyKey(x) == StringOf(x)

\* iconMap[iconCode]: an own property, else an inherited one, else undefined
IconMapGet(iconCode) ==
    LET key == ToPropertyKey(iconCode)
    IN  IF key \in KnownIconCodes THEN Str(IconMap(key))
        ELSE IF key \in ObjectPrototypeMethods THEN Function(key)
        ELSE IF key \in ObjectPrototypeKeys THEN ObjectPrototype
        ELSE Undefined

\* iconMap[iconCode] || fallback
GetWeatherIcon(iconCode) ==
    IF Falsy(IconMapGet(iconCode)) THEN Str(FallbackIcon) ELSE IconMapGet(iconCode)

----------------------------------------------------------------------------
(* js/storage.js *)

LAST_CITY == "weather_last_city"
FAVORITE_CITIES == "weather_favorite_cities"
THEME == "weather_theme"
UNIT == "weather_unit"
LAST_UPDATE == "weather_last_update"

\* Object.values(STORAGE_KEYS)
STORAGE_KEYS == {LAST_CITY, FAVORITE_CITIES, THEME, UNIT, LAST_UPDATE}

\* a key that is none of STORAGE_KEYS
OTHER_KEY == "other_key"

AllKeys == STORAGE_KEYS \cup {OTHER_KEY}

\* The text stored under a key: none (getItem returns null), the JSON text of
\* a value, or text that JSON.parse rejects.
NoItem == [k |-> "none"]
JsonText(x) == [k |-> "json", v |-> x]
RawText(s) == [k |-> "raw", v |-> s]

\* JSON.stringify(value), then the conversion of the result to the string
\* setItem stores: stringify throws on a circular structure, and returns
\* undefined for undefined, which setItem stores as the text "undefined"
JsonStringify(value) ==
    IF value.t = "cyclic" THEN [threw |-> TRUE]
    ELSE IF value.t = "undefined"
         THEN [threw |-> FALSE, text |-> RawText("undefined")]
         ELSE [threw |-> FALSE, text |-> JsonText(value)]

\* JSON.parse(item), for an item that is truthy
JsonParse(item) ==
    IF item.k = "json" THEN [threw |-> FALSE, val |-> item.v]
    ELSE [threw |-> TRUE]

\* what a call of an exported function leaves: the storage, and either the
\* value returned or an exception thrown to the caller
Returns(store, x) == [ls |-> store, threw |-> FALSE, val |-> x]
Throws(store) == [ls |-> store, threw |-> TRUE, val |-> Undefined]

\* io.read / io.write: whether localStorage.getItem / setItem and removeItem
\* succeed during the call (they throw when storage is denied or full)
IOk == [read |-> TRUE, write |-> TRUE]
IOs == {IOk, [read |-> FALSE, write |-> TRUE], [read |-> TRUE, write |-> FALSE]}
\* a storage that can be read, and written or not (the quota is exceeded)
ReadableIOs == {io \in IOs : io.read}

\* saveToStorage without its try/catch
SaveToStorageUncaught(store, key, value, io) ==
    LET serialized == JsonStringify(value)
    IN  IF serialized.threw \/ ~io.write
        THEN Throws(store)
        ELSE Returns([store EXCEPT ![key] = serialized.text], Bool(TRUE))

SaveToStorage(store, key, value, io) ==
    LET serialized == JsonStringify(value)
    IN  IF serialized.threw \/ ~io.write
        THEN Returns(store, Bool(FALSE))
        ELSE Returns([store EXCEPT ![key] = serialized.text], Bool(TRUE))

\* the value getFromStorage returns (it changes nothing)
GetFromStorage(store, key, io) ==
    IF ~io.read THEN Null
    ELSE LET item == store[key]
         IN  IF item.k = "none" \/ (item.k = "raw" /\ item.v = "") THEN Null
             ELSE LET parsed == JsonParse(item)
                  IN  IF parsed.threw THEN Null ELSE parsed.val

RemoveFromStorage(store, key, io) ==
    IF ~io.write THEN Returns(store, Bool(FALSE))
    ELSE Returns([store EXCEPT ![key] = NoItem], Bool(TRUE))

ClearAllStorage(store, io) ==
    IF ~io.write THEN Returns(store, Bool(FALSE))
    ELSE Returns([key \in DOMAIN store |->
                    IF key \in STORAGE_KEYS THEN NoItem ELSE store[key]],
                 Bool(TRUE))

SaveLastCity(store, city, io, t) ==
    SaveToStorage(store, LAST_CITY, Obj([name |-> city, timestamp |-> t]), io)

GetLastCity(store, io) == GetFromStorage(store, LAST_CITY, io)

GetFavoriteCities(store, io) ==
    LET favorites == GetFromStorage(store, FAVORITE_CITIES, io)
    IN  IF Falsy(favorites) THEN List(<<>>) ELSE favorites

\* x.name, for an argument x: undefined when x has no such property (reading
\* it from undefined or null throws, as does calling toLowerCase on undefined)
NameOf(x) ==
    IF x.t = "object" /\ "name" \in DOMAIN x.v THEN Str(x.v.name) ELSE Undefined

\* the comparison without toLowerCase()
SameNameExact(fav, name) ==
    IF "name" \notin DOMAIN fav \/ name.t # "string" THEN "throw"
    ELSE IF fav.name = name.v THEN "true"
    ELSE "false"

\* fav.name.toLowerCase() === name.toLowerCase(): "throw" when the favorite
\* has no name or the other operand is no string
SameName(fav, name) ==
    IF "name" \notin DOMAIN fav \/ name.t # "string" THEN "throw"
    ELSE IF ToLowerCase(fav.name) = ToLowerCase(name.v) THEN "true"
    ELSE "false"

\* favorites.some / favorites.findIndex with the name test: the elements are
\* tested in order up to the first match
RECURSIVE FindName(_, _, _)
FindName(favs, i, name) ==
    IF i > Len(favs) THEN [r |-> "none", index |-> 0]
    ELSE LET same == SameName(favs[i], name)
         IN  IF same = "throw" THEN [r |-> "throw", index |-> 0]
             ELSE IF same = "true" THEN [r |-> "found", index |-> i]
             ELSE FindName(favs, i + 1, name)

\* favorites.some(...) / favorites.findIndex(...): a value that is no array
\* has no such method, and the call throws
FindFavorite(favorites, name) ==
    IF favorites.t # "array" THEN [r |-> "throw", index |-> 0]
    ELSE FindName(favorites.v, 1, name)

\* removal of the first match only
FilterFirstName(favs, i, name) ==
    LET found == FindName(favs, i, name)
    IN  IF found.r = "throw" THEN [r |-> "throw", kept |-> <<>>]
        ELSE IF found.r = "none" THEN [r |-> "done", kept |-> SubSeq(favs, i, Len(favs))]
        ELSE [r |-> "done",
              kept |-> SubSeq(favs, i, found.index - 1)
                         \o SubSeq(favs, found.index + 1, Len(favs))]

\* favorites.filter(fav => fav.name.toLowerCase() !== cityName.toLowerCase()):
\* every element is tested
RECURSIVE FilterName(_, _, _)
FilterName(favs, i, name) ==
    IF i > Len(favs) THEN [r |-> "done", kept |-> <<>>]
    ELSE LET same == SameName(favs[i], name)
             rest == FilterName(favs, i + 1, name)
         IN  IF same = "throw" \/ rest.r = "throw" THEN [r |-> "throw", kept |-> <<>>]
             ELSE IF same = "true" THEN rest
             ELSE [r |-> "done", kept |-> <<favs[i]>> \o rest.kept]

AddFavoriteCity(store, cityData, io, t) ==
    LET favorites == GetFavoriteCities(store, io)
        exists == FindFavorite(favorites, NameOf(cityData))
    IN  IF exists.r = "throw" THEN Returns(store, Bool(FALSE))
        ELSE IF exists.r = "found" THEN Returns(store, Bool(FALSE))
        ELSE SaveToStorage(store, FAVORITE_CITIES,
                List(Append(favorites.v,
                        Spread(OwnProperties(cityData), [addedAt |-> t]))), io)

RemoveFavoriteCity(store, cityName, io) ==
    LET favorites == GetFavoriteCities(store, io)
        filtered == IF favorites.t # "array" THEN [r |-> "throw", kept |-> <<>>]
                    ELSE FilterName(favorites.v, 1, cityName)
    IN  IF filtered.r = "throw" THEN Returns(store, Bool(FALSE))
        ELSE SaveToStorage(store, FAVORITE_CITIES, List(filtered.kept), io)

IsFavoriteCity(store, cityName, io) ==
    LET favorites == GetFavoriteCities(store, io)
        some == FindFavorite(favorites, cityName)
    IN  IF some.r = "throw" THEN Throws(store)
        ELSE Returns(store, Bool(some.r = "found"))

\* the weather data put in place of the favorite, instead of merged over it
ReplacedFavorite(fav, weatherData, t) ==
    Spread(OwnProperties(weatherData), [lastUpdated |-> t])

\* {...favorites[index], ...weatherData, lastUpdated: Date.now()}
UpdatedFavorite(fav, weatherData, t) ==
    Spread(Spread(fav, OwnProperties(weatherData)), [lastUpdated |-> t])

UpdateFavoriteCityWeather(store, cityName, weatherData, io, t) ==
    LET favorites == GetFavoriteCities(store, io)
        found == FindFavorite(favorites, cityName)
    IN  IF found.r = "throw" THEN Returns(store, Bool(FALSE))
        ELSE IF found.r = "found"
        THEN SaveToStorage(store, FAVORITE_CITIES,
                List([favorites.v EXCEPT ![found.index] =
                        UpdatedFavorite(favorites.v[found.index], weatherData, t)]),
                io)
        ELSE Returns(store, Bool(FALSE))

SaveTheme(store, theme, io) == SaveToStorage(store, THEME, theme, io)
GetTheme(store, io) == GetFromStorage(store, THEME, io)
SaveUnit(store, unit, io) == SaveToStorage(store, UNIT, unit, io)

\* getUnit without the default
GetUnitStored(store, io) == GetFromStorage(store, UNIT, io)

GetUnit(store, io) ==
    LET unit == GetFromStorage(store, UNIT, io)
    IN  IF Falsy(unit) THEN Str("celsius") ELSE unit

SaveLastUpdate(store, timestamp, io) ==
    SaveToStorage(store, LAST_UPDATE, timestamp, io)

GetLastUpdate(store, io) == GetFromStorage(store, LAST_UPDATE, io)

\* now - lastUpdate > minutes * 60 * 1000, lastUpdate being converted to a
\* number; the difference is NaN, and the comparison false, when it converts
\* to none
NeedsRefresh(store, minutes, io, t) ==
    LET lastUpdate == GetLastUpdate(store, io)
    IN  IF Falsy(lastUpdate) THEN TRUE
        ELSE IF ToNumber(lastUpdate) = NaN THEN FALSE
        ELSE t - ToNumber(lastUpdate).v > minutes * 60 * MsPerSecond

\* Object.entries(STORAGE_KEYS): the names of the keys, in the order of the
\* literal, and the key of each name
StorageKeyNames == <<"LAST_CITY", "FAVORITE_CITIES", "THEME", "UNIT", "LAST_UPDATE">>
StorageKey(name) ==
    CASE name = "LAST_CITY" -> LAST_CITY
      [] name = "FAVORITE_CITIES" -> FAVORITE_CITIES
      [] name = "THEME" -> THEME
      [] name = "UNIT" -> UNIT
      [] name = "LAST_UPDATE" -> LAST_UPDATE

\* the forEach of importData from the i-th name on: saveToStorage(key,
\* data[name]) for each name that data defines, the outcome of each save
\* being dropped
RECURSIVE ImportEntries(_, _, _, _)
ImportEntries(store, data, i, io) ==
    IF i > Len(StorageKeyNames) THEN store
    ELSE LET name == StorageKeyNames[i]
             value == Prop(data, name)
         IN  ImportEntries(IF value = Undefined THEN store
                           ELSE SaveToStorage(store, StorageKey(name), value, io).ls,
                           data, i + 1, io)

\* importData(data): reading data[name] throws when data is undefined or
\* null, which the catch block turns into false
ImportData(store, data, io) ==
    IF Unreadable(data) THEN Returns(store, Bool(FALSE))
    ELSE Returns(ImportEntries(store, data, 1, io), Bool(TRUE))

----------------------------------------------------------------------------
(* Calls of the exported store functions *)

\* the arguments explored: city data with and without a name, names in
\* several spellings, weather data with and without a name, and undefined
CityArgs ==
    {Obj([name |-> "Paris"]),
     Obj([name |-> "paris"]),
     Obj([name |-> "London"]),
     Obj([temperature |-> 20]),
     Undefined}
NameArgs == {Str("Paris"), Str("PARIS"), Str("London"), Undefined}
WeatherArgs ==
    {Obj([temperature |-> 25]), Obj([name |-> "paris"]), Undefined}
SaveArgs == {Str("fahrenheit"), Undefined, Cyclic}
SaveKeys == {UNIT, OTHER_KEY}
LoadKeys == SaveKeys \cup {FAVORITE_CITIES}

NoCall ==
    [op |-> "none", args |-> <<>>, io |-> IOk, threw |-> FALSE, val |-> Undefined]

EmptyStorage == [key \in AllKeys |-> NoItem]

\* the call op(args), with outcome r, is the step taken; io tells whether
\* localStorage works during the call
Call(op, args, io, r) ==
    /\ ls' = r.ls
    /\ ret' = [op |-> op, args |-> args, io |-> io, threw |-> r.threw,
               val |-> r.val]
    /\ UNCHANGED <<now, fcVars, wxVars, seVars, apVars, pgVars>>

\* a function that only reads, returning x
Read(op, args, io, x) == Call(op, args, io, Returns(ls, x))

\* the number of favorites stored
StoredCount ==
    LET favorites == GetFavoriteCities(ls, IOk)
    IN  IF favorites.t = "array" THEN Len(favorites.v) ELSE 0

CallAddFavoriteCity(cityData, io) ==
    /\ StoredCount < MaxFavorites
    /\ Call("addFavoriteCity", <<cityData>>, io, AddFavoriteCity(ls, cityData, io, now))

CallRemoveFavoriteCity(cityName, io) ==
    Call("removeFavoriteCity", <<cityName>>, io,
         RemoveFavoriteCity(ls, cityName, io))

CallUpdateFavoriteCityWeather(cityName, weatherData, io) ==
    Call("updateFavoriteCityWeather", <<cityName, weatherData>>, io,
         UpdateFavoriteCityWeather(ls, cityName, weatherData, io, now))

CallImportData(data, io) ==
    Call("importData", <<data>>, io, ImportData(ls, data, io))

CallIsFavoriteCity(cityName, io) ==
    Call("isFavoriteCity", <<cityName>>, io, IsFavoriteCity(ls, cityName, io))

CallGetFavoriteCities(io) ==
    Read("getFavoriteCities", <<>>, io, GetFavoriteCities(ls, io))

CallSaveToStorage(key, value, io) ==
    Call("saveToStorage", <<Str(key), value>>, io,
         SaveToStorage(ls, key, value, io))

CallGetFromStorage(key, io) ==
    Read("getFromStorage", <<Str(key)>>, io, GetFromStorage(ls, key, io))

CallRemoveFromStorage(key, io) ==
    Call("removeFromStorage", <<Str(key)>>, io,
         RemoveFromStorage(ls, key, io))

CallClearAllStorage(io) ==
    Call("clearAllStorage", <<>>, io, ClearAllStorage(ls, io))

CallSaveLastCity(city, io) ==
    Call("saveLastCity", <<Str(city)>>, io, SaveLastCity(ls, city, io, now))

CallGetLastCity(io) == Read("getLastCity", <<>>, io, GetLastCity(ls, io))

CallSaveTheme(theme, io) == Call("saveTheme", <<theme>>, io, SaveTheme(ls, theme, io))

CallGetTheme(io) == Read("getTheme", <<>>, io, GetTheme(ls, io))

CallSaveUnit(unit, io) == Call("saveUnit", <<unit>>, io, SaveUnit(ls, unit, io))

CallGetUnit(io) == Read("getUnit", <<>>, io, GetUnit(ls, io))

\* saveLastUpdate(timestamp); without an argument the timestamp is Date.now()
CallSaveLastUpdate(timestamp, io) ==
    Call("saveLastUpdate", <<timestamp>>, io,
         SaveLastUpdate(ls, IF timestamp = Undefined THEN Num(now) ELSE timestamp,
                        io))

CallGetLastUpdate(io) == Read("getLastUpdate", <<>>, io, GetLastUpdate(ls, io))

DefaultRefreshMinutes == 10

\* needsRefresh(minutes)
CallNeedsRefresh(minutes, io) ==
    Read("needsRefresh", <<Num(minutes)>>, io,
         Bool(NeedsRefresh(ls, minutes, io, now)))

\* time passes
Tick ==
    /\ now < MaxNow
    /\ now' = now + 1
    /\ UNCHANGED <<ls, ret, fcVars, wxVars, seVars, apVars, pgVars>>

\* no current-weather record received
WeatherIdle ==
    /\ wxData = Undefined
    /\ wxResult = [threw |-> FALSE, val |-> Undefined]
    /\ wxSymbol = Undefined
    /\ wxStep = "none"

ForecastIdle ==
    /\ fcTz = 0
    /\ fcInput = <<>>
    /\ fcOutput = <<>>
    /\ fcDone = FALSE

\* the search box of a page just loaded
SearchIdle ==
    /\ searchText = ""
    /\ clearBtnVisible = FALSE
    /\ suggestionsVisible = FALSE
    /\ suggestions = <<>>
    /\ debounceTimer = 0
    /\ timers = {}
    /\ searches = {}
    /\ inputCount = 0
    /\ lastInputAt = 0
    /\ lastInputTimer = 0

\* no lookup started, nothing displayed
IdleSlot ==
    [state |-> "idle", kind |-> "city", query |-> "",
     weather |-> "pending", forecast |-> "pending"]

NothingSettled ==
    [outcome |-> "none", request |-> "none", status |-> "none",
     overlapped |-> FALSE]

NothingShown == [city |-> "", forecast |-> ""]

NoLookups ==
    /\ lookups = [i \in 1..MaxLookups |-> IdleSlot]
    /\ settled = NothingSettled
    /\ geoPending = 0
    /\ currentCity = Null
    /\ shown = NothingShown
    /\ loadingVisible = FALSE
    /\ errorVisible = FALSE
    /\ errorText = ""
    /\ weatherVisible = FALSE
    /\ favoriteBtnActive = FALSE

\* no page loaded: the data-theme attribute is not set
PageIdle ==
    /\ NoLookups
    /\ dataTheme = Null

\* the favorites of a fresh browser profile
InitFavorites ==
    /\ ls = EmptyStorage
    /\ now = 1
    /\ ret = NoCall
    /\ ForecastIdle
    /\ WeatherIdle
    /\ SearchIdle
    /\ PageIdle

NextFavorites ==
    \/ \E io \in IOs, cityData \in CityArgs : CallAddFavoriteCity(cityData, io)
    \/ \E io \in IOs, cityName \in NameArgs : CallRemoveFavoriteCity(cityName, io)
    \/ \E io \in IOs, cityName \in NameArgs, weatherData \in WeatherArgs :
            CallUpdateFavoriteCityWeather(cityName, weatherData, io)
    \/ Tick

SpecFavorites == InitFavorites /\ [][NextFavorites]_vars

\* what the favorites key may hold when the page loads: nothing, text that
\* does not parse, a value that is no list, a favorite without a name, a
\* well-formed list
StoredFavorites ==
    {NoItem,
     RawText("garbage"),
     JsonText(Num(7)),
     JsonText(List(<<[temperature |-> 20, addedAt |-> 1]>>)),
     JsonText(List(<<[name |-> "Paris", addedAt |-> 1]>>))}

InitStore ==
    /\ \E favorites \in StoredFavorites :
            ls = [EmptyStorage EXCEPT ![FAVORITE_CITIES] = favorites]
    /\ now = 1
    /\ ret = NoCall
    /\ ForecastIdle
    /\ WeatherIdle
    /\ SearchIdle
    /\ PageIdle

\* the arguments of the favorite functions explored together with the other
\* store functions
StoreCityArgs == {Obj([name |-> "Paris"]), Obj([name |-> "paris"]), Undefined}
StoreNameArgs == {Str("PARIS"), Undefined}
StoreWeatherArgs == {Obj([temperature |-> 25])}

\* the data imported: two preferences; favorites of one name in two spellings
\* with a timestamp that is a text; nothing
ImportArgs ==
    {Obj([UNIT |-> Str("fahrenheit"), THEME |-> Str("dark")]),
     Obj([FAVORITE_CITIES |-> List(<<[name |-> "Paris"], [name |-> "paris"]>>),
          LAST_UPDATE |-> Str("5")]),
     Undefined}

NextStore ==
    \/ \E io \in IOs, key \in SaveKeys, value \in SaveArgs :
            CallSaveToStorage(key, value, io)
    \/ \E io \in IOs, key \in LoadKeys : CallGetFromStorage(key, io)
    \/ \E io \in IOs, key \in LoadKeys : CallRemoveFromStorage(key, io)
    \/ \E io \in IOs : CallClearAllStorage(io)
    \/ \E io \in IOs : CallSaveLastCity("Paris", io)
    \/ \E io \in IOs : CallGetLastCity(io)
    \/ \E io \in IOs, cityData \in StoreCityArgs : CallAddFavoriteCity(cityData, io)
    \/ \E io \in IOs, cityName \in StoreNameArgs : CallRemoveFavoriteCity(cityName, io)
    \/ \E io \in IOs, cityName \in StoreNameArgs, weatherData \in StoreWeatherArgs :
            CallUpdateFavoriteCityWeather(cityName, weatherData, io)
    \/ \E io \in IOs, cityName \in StoreNameArgs : CallIsFavoriteCity(cityName, io)
    \/ \E io \in IOs : CallGetFavoriteCities(io)
    \/ \E io \in IOs : CallSaveTheme(Str("dark"), io)
    \/ \E io \in IOs : CallGetTheme(io)
    \/ \E io \in IOs : CallSaveUnit(Str("fahrenheit"), io)
    \/ \E io \in IOs : CallGetUnit(io)
    \/ \E io \in IOs : CallSaveLastUpdate(Undefined, io)
    \/ \E io \in IOs : CallGetLastUpdate(io)
    \/ \E io \in IOs : CallNeedsRefresh(DefaultRefreshMinutes, io)
    \/ \E io \in IOs, data \in ImportArgs : CallImportData(data, io)

SpecStore == InitStore /\ [][NextStore]_vars

\* the staleness check: timestamps given explicitly or taken from the clock,
\* thresholds of 0 and 10 minutes
TimestampArgs == {Undefined, Num(0), Num(1)}
RefreshMinutes == {0, DefaultRefreshMinutes}

NextRefresh ==
    \/ \E io \in IOs, timestamp \in TimestampArgs :
            CallSaveLastUpdate(timestamp, io)
    \/ \E io \in IOs : CallGetLastUpdate(io)
    \/ \E io \in IOs, minutes \in RefreshMinutes : CallNeedsRefresh(minutes, io)
    \/ \E io \in IOs : CallRemoveFromStorage(LAST_UPDATE, io)
    \/ Tick

SpecRefresh == InitFavorites /\ [][NextRefresh]_vars

\* the unit and theme preferences
UnitArgs == {Str("celsius"), Str("fahrenheit")}
ThemeArgs == {Str("light"), Str("dark")}

NextPreferences ==
    \/ \E io \in IOs, unit \in UnitArgs : CallSaveUnit(unit, io)
    \/ \E io \in IOs : CallGetUnit(io)
    \/ \E io \in IOs, theme \in ThemeArgs : CallSaveTheme(theme, io)
    \/ \E io \in IOs : CallGetTheme(io)
    \/ \E io \in IOs, key \in {UNIT, THEME} : CallRemoveFromStorage(key, io)
    \/ \E io \in IOs : CallClearAllStorage(io)

SpecPreferences == InitFavorites /\ [][NextPreferences]_vars

----------------------------------------------------------------------------
(* js/app.js: the search box *)

\* setTimeout(..., 500)
DebounceDelay == 500
\* value.length >= 2
MinQueryLength == 2

\* the texts typed into the search box
InputTexts == {"", " ", "p", "pa ", "paris"}

\* String.prototype.trim on the texts of the model
Trim(text) ==
    CASE text = " " -> ""
      [] text = "pa " -> "pa"
      [] OTHER -> text

\* the city the provider finds for a query
FoundCity(query) == IF query = "London" THEN "London" ELSE "Paris"

\* a clearTimeout that clears nothing
ClearNoTimeout(pending, handle) == pending

\* clearTimeout(debounceTimer): a handle that is null, or whose timeout has
\* fired, clears nothing
ClearTimeout(pending, handle) == {t \in pending : t.id # handle}

\* the timeouts still pending after clearTimeout(debounceTimer)
AfterClearTimeout == ClearTimeout(timers, debounceTimer)

\* handleSearchInput(e), e.target.value being text
HandleSearchInput(text) ==
    LET value == Trim(text)
        id == inputCount + 1
    IN  /\ inputCount < MaxInputs
        /\ searchText' = text
        /\ inputCount' = inputCount + 1
        /\ lastInputAt' = now
        /\ IF value # ""
           THEN /\ clearBtnVisible' = TRUE
                /\ timers' = AfterClearTimeout \cup
                        {[id |-> id, value |-> value, due |-> now + DebounceDelay]}
                /\ debounceTimer' = id
                /\ lastInputTimer' = id
                /\ UNCHANGED suggestionsVisible
           ELSE /\ clearBtnVisible' = FALSE
                /\ suggestionsVisible' = FALSE
                /\ lastInputTimer' = 0
                /\ UNCHANGED <<timers, debounceTimer>>
        /\ UNCHANGED <<suggestions, searches, fcVars, wxVars, stVars, apVars, pgVars>>

\* the click listener of elements.clearBtn
ClearButtonClick ==
    /\ searchText' = ""
    /\ clearBtnVisible' = FALSE
    /\ suggestionsVisible' = FALSE
    /\ UNCHANGED <<suggestions, debounceTimer, timers, searches, inputCount,
                   lastInputAt, lastInputTimer, fcVars, wxVars, stVars, apVars,
                   pgVars>>

\* the click listener of the document, for a click outside the search box
\* and the suggestions: the suggestions are hidden
ClickOutside ==
    /\ suggestionsVisible' = FALSE
    /\ UNCHANGED <<searchText, clearBtnVisible, suggestions, debounceTimer,
                   timers, searches, inputCount, lastInputAt, lastInputTimer>>

\* a click on the page that no other listener handles
DocumentClick ==
    /\ ClickOutside
    /\ UNCHANGED <<fcVars, wxVars, stVars, apVars, pgVars>>

\* the timeout callback runs: searchForCities(value) when value.length >= 2
TimeoutFires(t) ==
    /\ t \in timers
    /\ now >= t.due
    /\ timers' = timers \ {t}
    /\ searches' = IF Len(t.value) >= MinQueryLength
                   THEN searches \cup {[id |-> t.id, query |-> t.value]}
                   ELSE searches
    /\ UNCHANGED <<searchText, clearBtnVisible, suggestionsVisible, suggestions,
                   debounceTimer, inputCount, lastInputAt, lastInputTimer,
                   fcVars, wxVars, stVars, apVars, pgVars>>

\* searchCities resolves, with one city or with none (a response that is not
\* ok, or a failed request), and displaySuggestions(cities) runs
SearchResponds(q, found) ==
    /\ q \in searches
    /\ searches' = searches \ {q}
    /\ suggestions' = IF found THEN <<FoundCity(q.query)>> ELSE <<>>
    /\ suggestionsVisible' = found
    /\ UNCHANGED <<searchText, clearBtnVisible, debounceTimer, timers,
                   inputCount, lastInputAt, lastInputTimer, fcVars, wxVars, stVars,
                   apVars, pgVars>>

\* half a debounce delay passes
HalfDelay == DebounceDelay \div 2

ClockAdvances ==
    /\ now + HalfDelay <= MaxNow * DebounceDelay
    /\ now' = now + HalfDelay
    /\ UNCHANGED <<ls, ret, fcVars, wxVars, seVars, apVars, pgVars>>

----------------------------------------------------------------------------
(* js/api.js and js/app.js: weather lookups *)

\* the answers of the provider to a request: 200 with a well-formed body, 404,
\* 401, 500
Statuses == {"ok", "404", "401", "500"}

\* response.statusText
StatusText(status) ==
    CASE status = "404" -> "Not Found"
      [] status = "401" -> "Unauthorized"
      [] OTHER -> "Internal Server Error"

MsgCityNotFound == "City not found. Please check the spelling and try again."
MsgInvalidKey == "Invalid API key. Please check your configuration."
MsgWeatherFailed(status) == "Failed to fetch weather data: " \o StatusText(status)
MsgForecastFailed(status) == "Failed to fetch forecast data: " \o StatusText(status)
\* the message of the TypeError isFavoriteCity throws
MsgTypeError == "TypeError"

\* the message of the error getCurrentWeather throws on a response not ok
CurrentWeatherError(status) ==
    IF status = "404" THEN MsgCityNotFound
    ELSE IF status = "401" THEN MsgInvalidKey
    ELSE MsgWeatherFailed(status)

\* ... and getCurrentWeatherByCoords, getForecast, getForecastByCoords
CurrentWeatherByCoordsError(status) == MsgWeatherFailed(status)
ForecastError(status) == MsgForecastFailed(status)
ForecastByCoordsError(status) == MsgForecastFailed(status)

\* the city the provider reports at the position of the device
HomeCity == "London"

\* formatCurrentWeather(data), data being the provider's record for the query
WeatherOf(kind, query) ==
    [city |-> IF kind = "coords" THEN HomeCity ELSE FoundCity(query),
     temperature |-> 20, icon |-> "01d"]

\* the texts in the search box when Enter is pressed
EnterTexts == {"", "paris"}

\* the slot a new call takes
FreeSlots == {i \in 1..MaxLookups : lookups[i].state = "idle"}
FreeSlot == CHOOSE i \in FreeSlots : \A j \in FreeSlots : i <= j

\* a call that aborts the calls in flight when it starts
LoadWeatherDataCancelling(kind, query) ==
    /\ FreeSlots # {}
    /\ lookups' = [i \in 1..MaxLookups |->
                    IF i = FreeSlot
                    THEN [state |-> "pending", kind |-> kind, query |-> query,
                          weather |-> "pending", forecast |-> "pending"]
                    ELSE IdleSlot]
    /\ loadingVisible' = TRUE
    /\ weatherVisible' = FALSE
    /\ errorVisible' = FALSE
    /\ UNCHANGED <<settled, currentCity, shown, errorText, favoriteBtnActive>>

\* loadWeatherData(city) / loadWeatherDataByCoords(lat, lon) up to the await:
\* showLoading(), hideError(), and the two requests are sent
LoadWeatherData(kind, query) ==
    /\ FreeSlots # {}
    /\ lookups' = [lookups EXCEPT ![FreeSlot] =
                        [state |-> "pending", kind |-> kind, query |-> query,
                         weather |-> "pending", forecast |-> "pending"]]
    /\ loadingVisible' = TRUE
    /\ weatherVisible' = FALSE
    /\ errorVisible' = FALSE
    /\ UNCHANGED <<settled, currentCity, shown, errorText, favoriteBtnActive>>

\* the keypress listener of elements.citySearch, the key being Enter
EnterKeypress(text) ==
    /\ IF Trim(text) # ""
       THEN /\ LoadWeatherData("city", Trim(text))
            /\ suggestionsVisible' = FALSE
            /\ UNCHANGED geoPending
       ELSE UNCHANGED <<apVars, suggestionsVisible>>
    /\ UNCHANGED <<searchText, clearBtnVisible, suggestions, debounceTimer,
                   timers, searches, inputCount, lastInputAt, lastInputTimer,
                   fcVars, wxVars, stVars, pgVars>>

\* getCurrentLocation(), the click listener of the location button: without
\* navigator.geolocation an error is shown, otherwise showLoading() and the
\* position is requested, whether or not an earlier request is outstanding.
\* The click then reaches the listener of the document.
GetCurrentLocation(supported) ==
    /\ IF supported
       THEN /\ geoPending < MaxPositions
            /\ geoPending' = geoPending + 1
            /\ loadingVisible' = TRUE
            /\ weatherVisible' = FALSE
            /\ errorVisible' = FALSE
            /\ UNCHANGED errorText
       ELSE /\ errorText' = "Geolocation is not supported by your browser"
            /\ errorVisible' = TRUE
            /\ weatherVisible' = FALSE
            /\ UNCHANGED <<geoPending, loadingVisible>>
    /\ ClickOutside
    /\ UNCHANGED <<lookups, settled, currentCity, shown, favoriteBtnActive,
                   fcVars, wxVars, stVars, pgVars>>

\* the success callback of a getCurrentPosition request
PositionFound ==
    /\ geoPending > 0
    /\ geoPending' = geoPending - 1
    /\ LoadWeatherData("coords", "")
    /\ UNCHANGED <<fcVars, wxVars, stVars, seVars, pgVars>>

GeolocationMessages ==
    {"Location permission denied. Please enable location access.",
     "Location information is unavailable.",
     "Location request timed out.",
     "Unable to retrieve your location"}

\* the error callback of getCurrentPosition: hideLoading(), showError(message)
PositionFailed(message) ==
    /\ geoPending > 0
    /\ geoPending' = geoPending - 1
    /\ loadingVisible' = FALSE
    /\ errorText' = message
    /\ errorVisible' = TRUE
    /\ weatherVisible' = FALSE
    /\ UNCHANGED <<lookups, settled, currentCity, shown, favoriteBtnActive,
                   fcVars, wxVars, stVars, seVars, pgVars>>

AnySettled(other) == TRUE

\* Promise.all([...]) fulfils with the response that arrives when the other
\* request has already succeeded
AllSettled(other) == other = "ok"

\* a catch block that shows the error and leaves the loading indicator
CatchStillLoading(i, request, status, message) ==
    /\ lookups' = [lookups EXCEPT ![i] = IdleSlot]
    /\ settled' = [outcome |-> "rejected", request |-> request,
                   status |-> status, overlapped |-> FALSE]
    /\ UNCHANGED loadingVisible
    /\ errorText' = message
    /\ errorVisible' = TRUE
    /\ weatherVisible' = FALSE

\* the catch block: hideLoading(), showError(error.message)
Catch(i, request, status, message) ==
    /\ lookups' = [lookups EXCEPT ![i] = IdleSlot]
    /\ settled' = [outcome |-> "rejected", request |-> request,
                   status |-> status, overlapped |-> FALSE]
    /\ loadingVisible' = FALSE
    /\ errorText' = message
    /\ errorVisible' = TRUE
    /\ weatherVisible' = FALSE

\* the statements after the await: currentCity = weather, displayWeather,
\* saveLastCity, saveLastUpdate, hideLoading.  displayWeather writes the texts,
\* calls updateFavoriteButton (where isFavoriteCity may throw, which leads to
\* the catch block) and then shows the weather content.
Continue(i, request, io) ==
    LET kind == lookups[i].kind
        weather == WeatherOf(kind, lookups[i].query)
        isFav == IsFavoriteCity(ls, Str(weather.city), io)
        saved == SaveLastCity(ls, IF kind = "coords" THEN weather.city
                                  ELSE lookups[i].query, io, now).ls
    IN  /\ currentCity' = Obj(weather)
        /\ shown' = [city |-> weather.city,
                     forecast |-> IF isFav.threw THEN shown.forecast
                                  ELSE weather.city]
        /\ lookups' = [lookups EXCEPT ![i] = IdleSlot]
        /\ settled' = [outcome |-> "fulfilled", request |-> request,
                       status |-> "ok", overlapped |-> weatherVisible]
        /\ loadingVisible' = FALSE
        /\ IF isFav.threw
           THEN /\ errorText' = MsgTypeError
                /\ errorVisible' = TRUE
                /\ weatherVisible' = FALSE
                /\ UNCHANGED <<favoriteBtnActive, ls>>
           ELSE /\ favoriteBtnActive' = isFav.val.v
                /\ weatherVisible' = TRUE
                /\ ls' = SaveLastUpdate(saved, Num(now), io).ls
                /\ UNCHANGED <<errorText, errorVisible>>

\* the storage during the handling of an answer: only an answer 200 leads to
\* statements that reach the storage, which then can be written or not
StorageDuring(status) == IF status = "ok" THEN ReadableIOs ELSE {IOk}

\* the response to the current-weather request of call i arrives, the storage
\* behaving as io while the statements after the await run
WeatherResponds(i, status, io) ==
    /\ lookups[i].state = "pending"
    /\ lookups[i].weather = "pending"
    /\ IF status # "ok"
       THEN /\ Catch(i, "weather", status,
                     IF lookups[i].kind = "coords"
                     THEN CurrentWeatherByCoordsError(status)
                     ELSE CurrentWeatherError(status))
            /\ UNCHANGED <<currentCity, shown, favoriteBtnActive, ls>>
       ELSE IF AllSettled(lookups[i].forecast)
       THEN Continue(i, "weather", io)
       ELSE /\ lookups' = [lookups EXCEPT ![i].weather = "ok"]
            /\ UNCHANGED <<settled, currentCity, shown, loadingVisible,
                           errorVisible, errorText, weatherVisible,
                           favoriteBtnActive, ls>>
    /\ UNCHANGED <<geoPending, now, ret, fcVars, wxVars, seVars, pgVars>>

\* the response to the forecast request of call i arrives, the storage
\* behaving as io while the statements after the await run
ForecastResponds(i, status, io) ==
    /\ lookups[i].state = "pending"
    /\ lookups[i].forecast = "pending"
    /\ IF status # "ok"
       THEN /\ Catch(i, "forecast", status,
                     IF lookups[i].kind = "coords"
                     THEN ForecastByCoordsError(status)
                     ELSE ForecastError(status))
            /\ UNCHANGED <<currentCity, shown, favoriteBtnActive, ls>>
       ELSE IF AllSettled(lookups[i].weather)
       THEN Continue(i, "forecast", io)
       ELSE /\ lookups' = [lookups EXCEPT ![i].forecast = "ok"]
            /\ UNCHANGED <<settled, currentCity, shown, loadingVisible,
                           errorVisible, errorText, weatherVisible,
                           favoriteBtnActive, ls>>
    /\ UNCHANGED <<geoPending, now, ret, fcVars, wxVars, seVars, pgVars>>

\* what the favorites key holds when the page loads: nothing, a value that is
\* no list, a favorite saved on an earlier visit
PageFavorites ==
    {NoItem,
     JsonText(Num(7)),
     JsonText(List(<<[name |-> "PARIS", temperature |-> 15, icon |-> "02d",
                      addedAt |-> 1]>>))}

\* the page has loaded with no last city stored: the light theme was chosen
\* and saved, no lookup was started
PageLoaded(favorites) ==
    /\ ls = [EmptyStorage EXCEPT ![FAVORITE_CITIES] = favorites,
                                 ![THEME] = JsonText(Str("light"))]
    /\ now = 1
    /\ ret = NoCall
    /\ ForecastIdle
    /\ WeatherIdle
    /\ SearchIdle
    /\ NoLookups
    /\ dataTheme = Str("light")

\* a first visit: no favorite is stored
InitApp == PageLoaded(NoItem)

\* the lookups by name and by position, every answer of the provider, the
\* storage taking the writes or not (position requests that fail are part of
\* the runs of the page and of the loading indicator)
NextApp ==
    \/ \E text \in EnterTexts : EnterKeypress(text)
    \/ \E supported \in BOOLEAN : GetCurrentLocation(supported)
    \/ PositionFound
    \/ \E i \in 1..MaxLookups, status \in Statuses : \E io \in StorageDuring(status) :
            WeatherResponds(i, status, io)
    \/ \E i \in 1..MaxLookups, status \in Statuses : \E io \in StorageDuring(status) :
            ForecastResponds(i, status, io)

SpecApp == InitApp /\ [][NextApp]_vars

\* the click listener of the k-th suggestion: the search box takes the name
\* of the city, the suggestions are hidden and loadWeatherData(city.name)
\* runs (the listener of the document leaves a click inside the suggestions
\* alone)
SuggestionClick(k) ==
    /\ suggestionsVisible
    /\ k \in 1..Len(suggestions)
    /\ searchText' = suggestions[k]
    /\ suggestionsVisible' = FALSE
    /\ LoadWeatherData("city", suggestions[k])
    /\ UNCHANGED <<clearBtnVisible, suggestions, debounceTimer, timers,
                   searches, inputCount, lastInputAt, lastInputTimer,
                   geoPending, fcVars, wxVars, stVars, pgVars>>

\* the search box: typing, the debounce timeout, the answers to the searches
\* and the clicks; the lookups a click on a suggestion starts stay in flight
InitSearch ==
    /\ ls = EmptyStorage
    /\ now = 0
    /\ ret = NoCall
    /\ ForecastIdle
    /\ WeatherIdle
    /\ SearchIdle
    /\ PageIdle

NextSearch ==
    \/ \E text \in InputTexts : HandleSearchInput(text)
    \/ ClearButtonClick
    \/ DocumentClick
    \/ \E k \in 1..Len(suggestions) : SuggestionClick(k)
    \/ \E t \in timers : TimeoutFires(t)
    \/ \E q \in searches, found \in BOOLEAN : SearchResponds(q, found)
    \/ ClockAdvances

SpecSearch == InitSearch /\ [][NextSearch]_vars

\* the lookups and the location requests alone, from a page without favorites,
\* the provider answering with success or 404 and the storage taking every
\* write (no statement between the answer and hideLoading() depends on it);
\* every request to the provider and every request for the position is
\* answered in the end
LoadingStatuses == {"ok", "404"}

NextLoading ==
    \/ EnterKeypress("paris")
    \/ GetCurrentLocation(TRUE)
    \/ PositionFound
    \/ PositionFailed("Location request timed out.")
    \/ \E i \in 1..MaxLookups, status \in LoadingStatuses :
            WeatherResponds(i, status, IOk)
    \/ \E i \in 1..MaxLookups, status \in LoadingStatuses :
            ForecastResponds(i, status, IOk)

PositionAnswered == PositionFound \/ PositionFailed("Location request timed out.")

SpecLoading ==
    /\ InitApp
    /\ [][NextLoading]_vars
    /\ WF_vars(PositionAnswered)
    /\ \A i \in 1..MaxLookups :
            /\ WF_vars(\E status \in LoadingStatuses : WeatherResponds(i, status, IOk))
            /\ WF_vars(\E status \in LoadingStatuses : ForecastResponds(i, status, IOk))

----------------------------------------------------------------------------
(* js/app.js: the page load and the theme *)

\* initializeTheme(): savedTheme || (prefersDark ? 'dark' : 'light')
InitialTheme(store, prefersDark, io) ==
    LET savedTheme == GetTheme(store, io)
    IN  IF ~Falsy(savedTheme) THEN savedTheme
        ELSE IF prefersDark THEN Str("dark") ELSE Str("light")

\* toggleTheme(): currentTheme === 'light' ? 'dark' : 'light'
NewTheme(currentTheme) ==
    IF currentTheme = Str("light") THEN Str("dark") ELSE Str("light")

\* a load that takes no stored city for one
IgnoresLastCity(lastCity) == FALSE

\* lastCity && lastCity.name, the name being a string when there is one
HasLastCity(lastCity) ==
    /\ ~Falsy(lastCity)
    /\ lastCity.t = "object"
    /\ "name" \in DOMAIN lastCity.v
    /\ lastCity.v.name # ""

\* the DOMContentLoaded listener: initializeTheme(), loadLastCity()
\* (loadWeatherData is called in both branches of needsRefresh(10)), the
\* storage behaving as io
DOMContentLoaded(prefersDark, io) ==
    LET theme == InitialTheme(ls, prefersDark, io)
        saved == SaveTheme(ls, theme, io).ls
        lastCity == GetLastCity(saved, io)
        stale == NeedsRefresh(saved, DefaultRefreshMinutes, io, now)
    IN  /\ dataTheme = Null
        /\ dataTheme' = theme
        /\ ls' = saved
        /\ IF HasLastCity(lastCity)
           THEN /\ IF stale THEN LoadWeatherData("city", lastCity.v.name)
                            ELSE LoadWeatherData("city", lastCity.v.name)
                /\ UNCHANGED geoPending
           ELSE UNCHANGED apVars
        /\ UNCHANGED <<now, ret, fcVars, wxVars, seVars>>

\* the click listener of elements.themeToggle, followed by that of the
\* document, the storage behaving as io
ToggleTheme(io) ==
    /\ dataTheme # Null
    /\ dataTheme' = NewTheme(dataTheme)
    /\ ls' = SaveTheme(ls, NewTheme(dataTheme), io).ls
    /\ ClickOutside
    /\ UNCHANGED <<now, ret, fcVars, wxVars, apVars>>

\* what the browser holds when the page is opened: a theme saved earlier or
\* written by someone else, a last city, a last update
StoredThemes ==
    {NoItem, JsonText(Str("light")), JsonText(Str("dark")), JsonText(Str("blue")),
     RawText("garbage")}
StoredLastCities ==
    {NoItem,
     JsonText(Obj([name |-> "paris", timestamp |-> 1])),
     JsonText(Obj([name |-> "", timestamp |-> 1])),
     RawText("garbage")}
StoredLastUpdates == {NoItem, JsonText(Num(1))}

\* the clock at page load: at the last update, or eleven minutes after it
LoadTimes == {1, 1 + 11 * 60 * MsPerSecond}

InitPage ==
    /\ \E theme \in StoredThemes, lastCity \in StoredLastCities,
          lastUpdate \in StoredLastUpdates :
            ls = [EmptyStorage EXCEPT ![THEME] = theme,
                                      ![LAST_CITY] = lastCity,
                                      ![LAST_UPDATE] = lastUpdate]
    /\ now \in LoadTimes
    /\ ret = NoCall
    /\ ForecastIdle
    /\ WeatherIdle
    /\ SearchIdle
    /\ PageIdle

NextPage ==
    \/ \E prefersDark \in BOOLEAN, io \in ReadableIOs : DOMContentLoaded(prefersDark, io)
    \/ \E io \in ReadableIOs : ToggleTheme(io)
    \/ dataTheme # Null /\ GetCurrentLocation(TRUE)
    \/ \E message \in GeolocationMessages : PositionFailed(message)
    \/ \E i \in 1..MaxLookups, status \in Statuses : \E io \in StorageDuring(status) :
            WeatherResponds(i, status, io)
    \/ \E i \in 1..MaxLookups, status \in Statuses : \E io \in StorageDuring(status) :
            ForecastResponds(i, status, io)

SpecPage == InitPage /\ [][NextPage]_vars

----------------------------------------------------------------------------
(* js/app.js: the favorite button and the favorite cards *)

\* a favorite button that is left as it was
KeepFavoriteButton(store, city, active) ==
    [threw |-> FALSE, active |-> active]

\* updateFavoriteButton(): nothing without a current city, otherwise the
\* button is active when isFavoriteCity(currentCity.city), which may throw
UpdateFavoriteButton(store, city, active) ==
    IF Falsy(city) THEN [threw |-> FALSE, active |-> active]
    ELSE LET isFav == IsFavoriteCity(store, Str(city.v.city), IOk)
         IN  IF isFav.threw THEN [threw |-> TRUE, active |-> active]
             ELSE [threw |-> FALSE, active |-> isFav.val.v]

\* the object toggleFavorite hands to addFavoriteCity
FavoriteOf(city) ==
    Obj([name |-> city.v.city, temperature |-> city.v.temperature,
         icon |-> city.v.icon])

\* toggleFavorite(): the click listener of the favorite button, followed by
\* that of the document.  An exception of isFavoriteCity ends toggleFavorite
\* where it is thrown.
ToggleFavorite(io) ==
    /\ IF Falsy(currentCity)
       THEN UNCHANGED <<ls, favoriteBtnActive>>
       ELSE LET name == Str(currentCity.v.city)
                isFav == IsFavoriteCity(ls, name, IOk)
                saved == IF isFav.threw THEN ls
                         ELSE IF isFav.val.v
                         THEN RemoveFavoriteCity(ls, name, io).ls
                         ELSE AddFavoriteCity(ls, FavoriteOf(currentCity), io, now).ls
            IN  /\ ls' = saved
                /\ favoriteBtnActive' =
                        UpdateFavoriteButton(saved, currentCity, favoriteBtnActive).active
    /\ ClickOutside
    /\ UNCHANGED <<lookups, settled, geoPending, currentCity, shown,
                   loadingVisible, errorVisible, errorText, weatherVisible,
                   now, ret, fcVars, wxVars, pgVars>>

\* the cards renderFavorites() has drawn: one for each stored favorite
FavoriteCards == 1..Len(GetFavoriteCities(ls, IOk).v)

\* the click listener of card k, for a click outside its remove button:
\* loadWeatherData(city.name); the click then reaches the listener of the
\* document
FavoriteCardClick(k) ==
    LET favorites == GetFavoriteCities(ls, IOk)
    IN  /\ favorites.t = "array"
        /\ k \in FavoriteCards
        /\ LoadWeatherData("city", favorites.v[k].name)
        /\ ClickOutside
        /\ UNCHANGED <<geoPending, fcVars, wxVars, stVars, pgVars>>

\* the click listener of the remove button of card k: e.stopPropagation()
\* (the click reaches neither the card nor the document), removeFavoriteCity(
\* city.name), renderFavorites(), updateFavoriteButton()
RemoveFavoriteCard(k, io) ==
    LET favorites == GetFavoriteCities(ls, IOk)
        saved == RemoveFavoriteCity(ls, NameOf(Obj(favorites.v[k])), io).ls
    IN  /\ favorites.t = "array"
        /\ k \in FavoriteCards
        /\ ls' = saved
        /\ favoriteBtnActive' =
                UpdateFavoriteButton(saved, currentCity, favoriteBtnActive).active
        /\ UNCHANGED <<lookups, settled, geoPending, currentCity, shown,
                       loadingVisible, errorVisible, errorText, weatherVisible,
                       now, ret, fcVars, wxVars, seVars, pgVars>>

\* the answers of the provider in the runs of the favorite button: a lookup
\* that is rejected leaves the button, the current city and the favorites alone
ButtonStatuses == {"ok"}

NextButton ==
    \/ EnterKeypress("London")
    \/ \E i \in 1..MaxLookups, status \in ButtonStatuses : \E io \in StorageDuring(status) :
            WeatherResponds(i, status, io)
    \/ \E i \in 1..MaxLookups, status \in ButtonStatuses : \E io \in StorageDuring(status) :
            ForecastResponds(i, status, io)
    \/ \E io \in ReadableIOs : ToggleFavorite(io)
    \/ \E k \in 1..MaxFavorites : FavoriteCardClick(k)
    \/ \E k \in 1..MaxFavorites, io \in ReadableIOs : RemoveFavoriteCard(k, io)

\* a visit with any of the stored favorites
InitButton == \E favorites \in PageFavorites : PageLoaded(favorites)

SpecButton == InitButton /\ [][NextButton]_vars

----------------------------------------------------------------------------
(* Current-weather records: received, formatted, and the icon displayed *)

\* the icon codes a record may carry: the known ones, unknown ones, the empty
\* string, and names of inherited properties
IconArgs == KnownIconCodes \cup {"", "99x", "toString", "constructor", "__proto__"}

\* a complete record of the provider
ProviderRecord(icon) ==
    Obj([name |-> Str("Paris"),
         sys |-> Obj([country |-> Str("FR"), sunrise |-> Num(6),
                      sunset |-> Num(18)]),
         main |-> Obj([temp |-> Num(20), feels_like |-> Num(19),
                       humidity |-> Num(50), pressure |-> Num(1013)]),
         wind |-> Obj([speed |-> Num(5)]),
         weather |-> List(<<Obj([description |-> Str("clear sky"),
                                 icon |-> Str(icon), main |-> Str("Clear")])>>),
         dt |-> Num(100),
         coord |-> Obj([lat |-> Num(48), lon |-> Num(2)])])

\* the fields formatCurrentWeather reads
ExpectedPaths ==
    {<<"name">>, <<"sys", "country">>, <<"main", "temp">>,
     <<"main", "feels_like">>, <<"main", "humidity">>, <<"main", "pressure">>,
     <<"wind", "speed">>, <<"weather", "0">>, <<"weather", "0", "description">>,
     <<"weather", "0", "icon">>, <<"weather", "0", "main">>, <<"dt">>,
     <<"sys", "sunrise">>, <<"sys", "sunset">>, <<"coord", "lat">>,
     <<"coord", "lon">>}

\* the objects that hold them
ParentPaths == {<<"sys">>, <<"main">>, <<"wind">>, <<"weather">>, <<"coord">>}

\* x without the property at path
RECURSIVE Without(_, _)
Without(x, path) ==
    IF path = <<>> THEN x
    ELSE IF x.t = "array"
    THEN IF Len(path) = 1 THEN List(Tail(x.v))
         ELSE List([x.v EXCEPT ![1] = Without(@, Tail(path))])
    ELSE IF Len(path) = 1
         THEN Obj([f \in DOMAIN x.v \ {path[1]} |-> x.v[f]])
         ELSE Obj([x.v EXCEPT ![path[1]] = Without(@, Tail(path))])

\* x has a property at path
RECURSIVE HasPath(_, _)
HasPath(x, path) ==
    \/ path = <<>>
    \/ /\ Prop(x, path[1]) # Undefined
       /\ HasPath(Prop(x, path[1]), Tail(path))

\* a record arrives, complete or lacking one field or one object
InitWeather ==
    /\ \E icon \in IconArgs, path \in ExpectedPaths \cup ParentPaths \cup {<<>>} :
            wxData = Without(ProviderRecord(icon), path)
    /\ wxResult = [threw |-> FALSE, val |-> Undefined]
    /\ wxSymbol = Undefined
    /\ wxStep = "received"
    /\ ls = EmptyStorage
    /\ now = 1
    /\ ret = NoCall
    /\ ForecastIdle
    /\ SearchIdle
    /\ PageIdle

\* getCurrentWeather: return formatCurrentWeather(data)
RunFormatCurrentWeather ==
    /\ wxStep = "received"
    /\ wxResult' = FormatCurrentWeather(wxData)
    /\ wxStep' = IF FormatCurrentWeather(wxData).threw THEN "failed"
                 ELSE "formatted"
    /\ UNCHANGED <<wxData, wxSymbol, fcVars, stVars, seVars, apVars, pgVars>>

\* displayWeather: getWeatherIcon(weather.icon)
RunGetWeatherIcon ==
    /\ wxStep = "formatted"
    /\ wxSymbol' = GetWeatherIcon(wxResult.val.v.icon)
    /\ wxStep' = "displayed"
    /\ UNCHANGED <<wxData, wxResult, fcVars, stVars, seVars, apVars, pgVars>>

NextWeather == RunFormatCurrentWeather \/ RunGetWeatherIcon

SpecWeather == InitWeather /\ [][NextWeather]_vars

----------------------------------------------------------------------------
(* Inputs of the aggregation *)

\* one more calendar day than the output keeps, so that truncation happens
NumDays == MaxForecastDays + 1

\* UTC hours sampled: three on the first day (9 and 14 differ in distance to
\* noon, 10 and 14 tie when the host is on UTC), one on each later day
SampleHours(day) == IF day = 0 THEN {9, 10, 14} ELSE {Noon}

\* a sample of the forecast list: its time in seconds and its wind in m/s
Sample(dt, speed) == [dt |-> dt, wind |-> [speed |-> speed]]

SampleSet ==
    UNION {{Sample((day * HoursPerDay + h) * SecondsPerHour, 10) :
                h \in SampleHours(day)} : day \in 0..(NumDays - 1)}

\* host offsets from UTC, in hours
TimeZones == {-10, 0, 3}

Range(s) == {s[i] : i \in 1..Len(s)}

\* lists of at most n distinct samples, in every order
RECURSIVE Lists(_)
Lists(n) ==
    IF n = 0 THEN {<<>>}
    ELSE LET shorter == Lists(n - 1)
         IN  shorter \cup
             UNION {{Append(l, s) : s \in SampleSet \ Range(l)} :
                        l \in {p \in shorter : Len(p) = n - 1}}

InitForecast ==
    /\ fcTz \in TimeZones
    /\ fcInput \in Lists(MaxLen)
    /\ fcOutput = <<>>
    /\ fcDone = FALSE
    /\ ls = EmptyStorage
    /\ now = 1
    /\ ret = NoCall
    /\ WeatherIdle
    /\ SearchIdle
    /\ PageIdle

\* getForecast / getForecastByCoords: return formatForecast(data)
RunFormatForecast ==
    /\ ~fcDone
    /\ fcOutput' = FormatForecast(fcInput, fcTz)
    /\ fcDone' = TRUE
    /\ UNCHANGED <<fcTz, fcInput, wxVars, stVars, seVars, apVars, pgVars>>

NextForecast == RunFormatForecast

SpecForecast == InitForecast /\ [][NextForecast]_vars

\* one wind speed, reported in a current-weather record and in a forecast
\* sample
WindRecord(speed) ==
    Obj([ProviderRecord("01d").v EXCEPT !.wind = Obj([speed |-> Num(speed)])])

InitWind ==
    /\ \E speed \in 0..MaxSpeed :
            /\ wxData = WindRecord(speed)
            /\ fcInput = <<Sample(Noon * SecondsPerHour, speed)>>
    /\ fcTz \in TimeZones
    /\ fcOutput = <<>>
    /\ fcDone = FALSE
    /\ wxResult = [threw |-> FALSE, val |-> Undefined]
    /\ wxSymbol = Undefined
    /\ wxStep = "received"
    /\ ls = EmptyStorage
    /\ now = 1
    /\ ret = NoCall
    /\ SearchIdle
    /\ PageIdle

NextWind == RunFormatCurrentWeather \/ RunFormatForecast

SpecWind == InitWind /\ [][NextWind]_vars

----------------------------------------------------------------------------
(* Properties of the aggregation *)

InputIndexes == 1..Len(fcInput)
OutputIndexes == 1..Len(fcOutput)
InputTimestamp(k) == fcInput[k].dt * 1000
InputDate(k) == InputTimestamp(k) \div 86400000
InputDates == {InputDate(k) : k \in InputIndexes}
OutputDates == {fcOutput[i].date : i \in OutputIndexes}
\* the sample of the first day at a UTC hour, and the noon sample of a day
FirstDayAt(h) == Sample(h * 3600, 10)
NoonOf(day) == Sample((day * 24 + 12) * 3600, 10)
\* the distance to noon of the local hour of a timestamp
HourDistance(ts) ==
    LET hour == ((ts \div 3600000) + fcTz) % 24
    IN  IF hour < 12 THEN 12 - hour ELSE hour - 12

\* C1: the aggregation returns at most 5 entries and no two of them have the
\* same date key.
C1_AtMostFiveUniqueDates ==
    fcDone =>
        /\ Len(fcOutput) <= 5
        /\ \A i, j \in OutputIndexes :
                fcOutput[i].date = fcOutput[j].date => i = j

\* six distinct dates came in, five entries came out
C1_Witness ==
    /\ fcDone
    /\ Cardinality(InputDates) = 6
    /\ Len(fcOutput) = 5

\* C2: the entry of a date key is an input sample of that date whose distance
\* to noon is minimal among all input samples of that date.
C2_NoonClosest ==
    fcDone =>
        \A i \in OutputIndexes :
            /\ \E k \in InputIndexes :
                    /\ InputTimestamp(k) = fcOutput[i].timestamp
                    /\ InputDate(k) = fcOutput[i].date
            /\ \A k \in InputIndexes :
                    InputDate(k) = fcOutput[i].date =>
                        HourDistance(fcOutput[i].timestamp)
                            <= HourDistance(InputTimestamp(k))

\* same-day samples at hours 9 and 14 (host on UTC): the one at 14 is selected
C2_Witness ==
    /\ fcDone
    /\ fcTz = 0
    /\ fcInput = <<FirstDayAt(9), FirstDayAt(14), NoonOf(1)>>
    /\ fcOutput[1].timestamp = 14 * 3600000
    /\ Len(fcOutput) = 2

\* C3: among the samples of a date at the minimal distance to noon, the entry is
\* the one that comes first in the input.
C3_EarliestOnTie ==
    fcDone =>
        \A i \in OutputIndexes :
            \A k \in InputIndexes :
                /\ InputDate(k) = fcOutput[i].date
                /\ HourDistance(InputTimestamp(k))
                        = HourDistance(fcOutput[i].timestamp)
                => \E e \in 1..k : InputTimestamp(e) = fcOutput[i].timestamp

\* hours 14 and then 10 of one day tie (host on UTC): 14, seen first, is kept
C3_Witness ==
    /\ fcDone
    /\ fcTz = 0
    /\ fcInput = <<FirstDayAt(14), FirstDayAt(10)>>
    /\ fcOutput = <<[date |-> 0, timestamp |-> 14 * 3600000, windSpeed |-> 36]>>

\* C4: in whatever order the samples arrive, the returned entries are in
\* ascending order of date key.
C4_AscendingDates ==
    fcDone =>
        \A i, j \in OutputIndexes :
            i < j => fcOutput[i].date < fcOutput[j].date

\* C5: one entry per distinct input date when there are at most 5 of them,
\* and otherwise the entries of the 5 earliest dates.
C5_OnePerDateEarliestFive ==
    fcDone =>
        /\ Len(fcOutput) = Cardinality(OutputDates)
        /\ IF Cardinality(InputDates) <= 5
           THEN OutputDates = InputDates
           ELSE /\ Cardinality(OutputDates) = 5
                /\ OutputDates \subseteq InputDates
                /\ \A d \in OutputDates :
                        \A e \in InputDates \ OutputDates : d < e

\* the calendar day and the distance to noon of a timestamp on the calendar
\* of a host at offset c hours from UTC
DayOn(ts, c) == ((ts \div 3600000) + c) \div 24
NoonDistanceOn(ts, c) ==
    LET hour == ((ts \div 3600000) + c) % 24
    IN  IF hour < 12 THEN 12 - hour ELSE hour - 12

\* date keys and hours follow the calendar at offset c: every entry carries
\* the day of its sample, and its sample is nearest to noon among the input
\* samples of that day
FollowsCalendar(c) ==
    \A i \in OutputIndexes :
        /\ fcOutput[i].date = DayOn(fcOutput[i].timestamp, c)
        /\ \A k \in InputIndexes :
                DayOn(InputTimestamp(k), c) = fcOutput[i].date =>
                    NoonDistanceOn(fcOutput[i].timestamp, c)
                        <= NoonDistanceOn(InputTimestamp(k), c)

\* C23: on a host at any offset from UTC, the date keys and the hours of day
\* follow one calendar (that of the host, or UTC): the entry of a date key is
\* a sample of that calendar day, the one nearest to 12:00 of that day.
C23_OneCalendar ==
    fcDone => (FollowsCalendar(fcTz) \/ FollowsCalendar(0))

----------------------------------------------------------------------------
(* Properties of the current-weather formatting and of the icons *)

\* the icon code of the formatted weather
FormattedIcon == wxResult.val.v.icon

\* C19: getWeatherIcon returns the symbol of each of the 18 known codes, and
\* the fallback symbol for every other input: another string, the empty
\* string, an absent value.
C19_IconTotal ==
    wxStep = "displayed" =>
        IF FormattedIcon.t = "string" /\ FormattedIcon.v \in KnownIconCodes
        THEN wxSymbol = Str(IconMap(FormattedIcon.v))
        ELSE wxSymbol = Str(FallbackIcon)

\* the record received lacks one of the fields formatCurrentWeather reads
LacksField == \E path \in ExpectedPaths : ~HasPath(wxData, path)

\* C20: formatCurrentWeather throws whenever the record lacks one of the
\* expected fields; it hands out no result with a field left undefined.
C20_MissingFieldFails ==
    (wxStep # "received" /\ LacksField) => wxResult.threw

\* the speed received, and the two speeds formatted
SpeedReceived == fcInput[1].wind.speed
CurrentWindSpeed == wxResult.val.v.windSpeed.v
ForecastWindSpeed == fcOutput[1].windSpeed

\* C21: the wind speed formatted is the integer nearest to speed * 3.6, the
\* same in the current weather and in the forecast; 10 m/s gives 36 km/h.
C21_WindSpeed ==
    (wxStep = "formatted" /\ fcDone) =>
        /\ CurrentWindSpeed = ForecastWindSpeed
        /\ 10 * CurrentWindSpeed - 36 * SpeedReceived \in -5..5
        /\ SpeedReceived = 10 => CurrentWindSpeed = 36

\* 10 m/s was formatted by both functions
C21_Witness ==
    /\ wxStep = "formatted"
    /\ fcDone
    /\ SpeedReceived = 10
    /\ CurrentWindSpeed = 36
    /\ ForecastWindSpeed = 36

----------------------------------------------------------------------------
(* Properties of the preference store *)

\* the favorites list as stored (empty when the key holds no list)
StoredFavoritesList ==
    IF ls[FAVORITE_CITIES].k = "json" /\ ls[FAVORITE_CITIES].v.t = "array"
    THEN ls[FAVORITE_CITIES].v.v
    ELSE <<>>

\* C6: after any sequence of addFavoriteCity, removeFavoriteCity and
\* updateFavoriteCityWeather calls from an empty list, no two stored favorites
\* have names that are equal ignoring case.
C6_UniqueNames ==
    \A i, j \in 1..Len(StoredFavoritesList) :
        /\ "name" \in DOMAIN StoredFavoritesList[i]
        /\ "name" \in DOMAIN StoredFavoritesList[j]
        /\ ToLowerCase(StoredFavoritesList[i].name)
                = ToLowerCase(StoredFavoritesList[j].name)
        => i = j

\* C10: no exported function of the store throws to its caller, whatever the
\* storage holds, whatever the arguments and whether or not localStorage fails.
C10_NeverThrows == ~ret.threw

\* the step is a call of op (every step of the store specifications is a call)
IsCall(op) == ret'.op = op /\ (ret' # ret \/ ls' # ls)

\* C11: when JSON.stringify or setItem fails, saveToStorage returns false,
\* does not throw and leaves every key as it was; when getItem or JSON.parse
\* fails, getFromStorage returns null, does not throw and changes nothing.
C11_FailuresAreAbsorbed ==
    [][/\ ( /\ IsCall("saveToStorage")
            /\ JsonStringify(ret'.args[2]).threw \/ ~ret'.io.write )
          => ret'.val = Bool(FALSE) /\ ~ret'.threw /\ ls' = ls
       /\ ( /\ IsCall("getFromStorage")
            /\ ~ret'.io.read \/ ls[ret'.args[1].v].k = "raw" )
          => ret'.val = Null /\ ~ret'.threw /\ ls' = ls]_vars

\* a save of a circular structure was refused while the key held a value
C11_Witness ==
    /\ ret.op = "saveToStorage"
    /\ ret.args = <<Str(UNIT), Cyclic>>
    /\ ret.val = Bool(FALSE)
    /\ ls[UNIT] = JsonText(Str("fahrenheit"))

\* the favorites stored, as a sequence (empty when the key holds no list)
FavoritesIn(store) ==
    LET favorites == GetFavoriteCities(store, IOk)
    IN  IF favorites.t = "array" THEN favorites.v ELSE <<>>

\* every stored favorite has a name
AllNamed(favs) == \A k \in 1..Len(favs) : "name" \in DOMAIN favs[k]

\* some favorite of favs has the name, ignoring case
Matches(favs, name) ==
    \E k \in 1..Len(favs) : ToLowerCase(favs[k].name) = ToLowerCase(name)

\* C13: with storage working and every stored favorite named, addFavoriteCity
\* of a name that matches a stored favorite ignoring case returns false and
\* leaves the storage unchanged; of a name that matches none it returns true
\* and appends one entry with that name and addedAt = Date.now(), the earlier
\* entries staying as they were, in the same order.
C13_AddFavorite ==
    [][( /\ IsCall("addFavoriteCity")
         /\ ret'.io = IOk
         /\ NameOf(ret'.args[1]) # Undefined
         /\ AllNamed(FavoritesIn(ls)) )
       => LET before == FavoritesIn(ls)
              after == FavoritesIn(ls')
              name == ret'.args[1].v.name
          IN  IF Matches(before, name)
              THEN ret'.val = Bool(FALSE) /\ ls' = ls
              ELSE /\ ret'.val = Bool(TRUE)
                   /\ Len(after) = Len(before) + 1
                   /\ SubSeq(after, 1, Len(before)) = before
                   /\ after[Len(after)] = [name |-> name, addedAt |-> now]
                   /\ \A key \in AllKeys \ {FAVORITE_CITIES} :
                        ls'[key] = ls[key]]_vars

\* "paris" was refused while "Paris" is stored
C13_Witness ==
    /\ ret.op = "addFavoriteCity"
    /\ ret.args = <<Obj([name |-> "paris"])>>
    /\ ret.io = IOk
    /\ ret.val = Bool(FALSE)
    /\ FavoritesIn(ls) = <<[name |-> "Paris", addedAt |-> 1]>>

\* C14: with storage working and every stored favorite named,
\* removeFavoriteCity(name) leaves exactly the favorites whose name differs
\* from name ignoring case, as they were and in the same relative order, and
\* isFavoriteCity(name) is false afterwards.
C14_RemoveFavorite ==
    [][( /\ IsCall("removeFavoriteCity")
         /\ ret'.io = IOk
         /\ ret'.args[1].t = "string"
         /\ AllNamed(FavoritesIn(ls)) )
       => LET name == ret'.args[1].v
              Other(fav) == ToLowerCase(fav.name) # ToLowerCase(name)
          IN  /\ FavoritesIn(ls') = SelectSeq(FavoritesIn(ls), Other)
              /\ IsFavoriteCity(ls', Str(name), IOk) = Returns(ls', Bool(FALSE))]_vars

\* removeFavoriteCity("PARIS") has run at time 2 and left the favorite London,
\* which was added at time 1
C14_Witness ==
    /\ ret.op = "removeFavoriteCity"
    /\ ret.args = <<Str("PARIS")>>
    /\ ret.io = IOk
    /\ ret.val = Bool(TRUE)
    /\ now = 2
    /\ FavoritesIn(ls) = <<[name |-> "London", addedAt |-> 1]>>

\* C15: needsRefresh(m) returns true when no timestamp is recorded, and for a
\* recorded timestamp, 0 included, it returns true exactly when
\* now - lastUpdate > m minutes.
C15_StaleExactly ==
    [][( IsCall("needsRefresh") /\ ret'.io = IOk )
       => LET lastUpdate == ls[LAST_UPDATE]
              minutes == ret'.args[1].v
          IN  IF lastUpdate = NoItem THEN ret'.val = Bool(TRUE)
              ELSE ret'.val =
                     Bool(now - lastUpdate.v.v > minutes * 60 * MsPerSecond)]_vars

\* the step is a successful saveUnit
SavesUnit == IsCall("saveUnit") /\ ret'.val = Bool(TRUE)

\* the step successfully removes the unit or clears the store
DropsUnit ==
    \/ /\ IsCall("removeFromStorage")
       /\ ret'.args = <<Str(UNIT)>>
       /\ ret'.val = Bool(TRUE)
    \/ IsCall("clearAllStorage") /\ ret'.val = Bool(TRUE)

\* C16: getUnit returns "celsius" while no unit has been saved and after the
\* unit was removed or the store cleared, and otherwise the unit of the most
\* recent successful saveUnit: a successful saveUnit makes getUnit return its
\* argument, a removal or clear makes it return "celsius", and no other step
\* changes what it returns.
C16_UnitLastSaved ==
    /\ GetUnit(ls, IOk) = Str("celsius")
    /\ [][/\ SavesUnit => GetUnit(ls', IOk) = ret'.args[1]
          /\ DropsUnit => GetUnit(ls', IOk) = Str("celsius")
          /\ ~(SavesUnit \/ DropsUnit) => GetUnit(ls', IOk) = GetUnit(ls, IOk)
          /\ (IsCall("getUnit") /\ ret'.io = IOk) => ret'.val = GetUnit(ls, IOk)
         ]_vars

\* getUnit returned the unit that was saved, a theme being stored as well
C16_Witness ==
    /\ ret.op = "getUnit"
    /\ ret.io = IOk
    /\ ret.val = Str("fahrenheit")
    /\ ls[THEME] = JsonText(Str("dark"))

\* what load(key) returns, the storage working
Load(store, key) == GetFromStorage(store, key, IOk)

\* C17: load(key) returns the value of the most recent successful
\* save(key, v), and null when the key was removed or the store cleared since:
\* a successful save makes load return the value saved, a successful remove
\* or clear makes it return null, and a save or remove on one key changes the
\* result of load for no other key.
C17_LastWriteWins ==
    [][/\ (IsCall("saveToStorage") /\ ret'.val = Bool(TRUE))
            => Load(ls', ret'.args[1].v) = ret'.args[2]
       /\ (IsCall("removeFromStorage") /\ ret'.val = Bool(TRUE))
            => Load(ls', ret'.args[1].v) = Null
       /\ (IsCall("clearAllStorage") /\ ret'.val = Bool(TRUE))
            => \A key \in AllKeys : Load(ls', key) = Null
       /\ (IsCall("saveToStorage") \/ IsCall("removeFromStorage"))
            => \A key \in AllKeys \ {ret'.args[1].v} :
                    Load(ls', key) = Load(ls, key)]_vars

\* the fields weather data carries (none when it is no object)
DataFields(data) == IF data.t = "object" THEN DOMAIN data.v ELSE {}

\* the first favorite of favs with the name, ignoring case
FirstMatch(favs, name) ==
    CHOOSE k \in 1..Len(favs) :
        /\ ToLowerCase(favs[k].name) = ToLowerCase(name)
        /\ \A j \in 1..(k - 1) : ToLowerCase(favs[j].name) # ToLowerCase(name)

\* C27: with storage working and every stored favorite named,
\* updateFavoriteCityWeather(name, data), data carrying neither name nor
\* addedAt, returns false and leaves the storage unchanged when no favorite
\* matches name ignoring case; when one matches, the first match takes the
\* fields of data and lastUpdated = Date.now() and keeps its other fields,
\* addedAt among them, and the other entries, the length and the order of the
\* list stay as they were.
C27_UpdateFavorite ==
    [][( /\ IsCall("updateFavoriteCityWeather")
         /\ ret'.io = IOk
         /\ ret'.args[1].t = "string"
         /\ DataFields(ret'.args[2]) \cap {"name", "addedAt"} = {}
         /\ AllNamed(FavoritesIn(ls)) )
       => LET name == ret'.args[1].v
              data == ret'.args[2]
              before == FavoritesIn(ls)
              after == FavoritesIn(ls')
          IN  IF ~Matches(before, name)
              THEN ret'.val = Bool(FALSE) /\ ls' = ls
              ELSE LET k == FirstMatch(before, name)
                   IN  /\ ret'.val = Bool(TRUE)
                       /\ Len(after) = Len(before)
                       /\ \A j \in 1..Len(before) : j # k => after[j] = before[j]
                       /\ DOMAIN after[k] = DOMAIN before[k] \cup DataFields(data)
                                                \cup {"lastUpdated"}
                       /\ after[k].lastUpdated = now
                       /\ after[k].addedAt = before[k].addedAt
                       /\ \A f \in DataFields(data) \ {"lastUpdated"} :
                                after[k][f] = data.v[f]
                       /\ \A f \in DOMAIN before[k] \ (DataFields(data) \cup {"lastUpdated"}) :
                                after[k][f] = before[k][f]]_vars

\* updateFavoriteCityWeather("PARIS", {temperature: 25}) has run at time 2 on
\* the favorites London and Paris, both added at time 1
C27_Witness ==
    /\ ret.op = "updateFavoriteCityWeather"
    /\ ret.args = <<Str("PARIS"), Obj([temperature |-> 25])>>
    /\ ret.io = IOk
    /\ ret.val = Bool(TRUE)
    /\ now = 2
    /\ FavoritesIn(ls) = <<[name |-> "London", addedAt |-> 1],
                           [name |-> "Paris", addedAt |-> 1, temperature |-> 25,
                            lastUpdated |-> 2]>>

----------------------------------------------------------------------------
(* Properties of the search box *)

\* a step that is an input event, and a step in which the timeout t fires
IsInputEvent == inputCount' = inputCount + 1
IsFiring(t) == t \in timers /\ t \notin timers' /\ inputCount' = inputCount

\* C7: every input event, whatever its value, resets the pending debounce
\* timer; a timeout fires only once the input has been quiet for the full
\* delay of 500 ms, and only the timeout of the most recent input event fires.
C7_Debounced ==
    [][/\ IsInputEvent => \A t \in timers : t \notin timers'
       /\ \A t \in timers :
            IsFiring(t) => /\ now >= lastInputAt + 500
                           /\ t.id = lastInputTimer]_vars

\* a step that is an input event scheduling a timeout
SchedulesTimer == IsInputEvent /\ debounceTimer' # debounceTimer

\* the only timeout that can be pending is the one debounceTimer names
OnlyLastPending ==
    /\ Cardinality(timers) <= 1
    /\ \A t \in timers : t.id = debounceTimer

\* C25: at most one debounce timeout is pending at any time; an input event
\* that schedules a timeout cancels the one scheduled before it, so that of
\* the timeouts of a burst only the last one scheduled can fire.
C25_OnePending ==
    /\ []OnlyLastPending
    /\ [][/\ SchedulesTimer =>
                /\ \A t \in timers : t \notin timers'
                /\ \E t \in timers' : timers' = {t} /\ t.id = debounceTimer'
          /\ \A t \in timers : IsFiring(t) => t.id = debounceTimer /\ timers' = {}]_vars

\* three input events have come within the delay: only the timeout that the
\* third scheduled, some time after the first event, is pending
C25_Witness ==
    /\ inputCount = 3
    /\ now < DebounceDelay
    /\ Cardinality(timers) = 1
    /\ debounceTimer = 3
    /\ \A t \in timers : t.id = 3 /\ t.due > DebounceDelay

----------------------------------------------------------------------------
(* Properties of the weather lookups *)

\* the step settles the Promise.all of call i
Settles(i) == lookups[i].state = "pending" /\ lookups'[i].state = "idle"

\* the step is the arrival of a success that completes both requests of call i
CompletesBoth(i) ==
    /\ Settles(i)
    /\ settled'.outcome = "fulfilled"
    /\ \/ settled'.request = "weather" /\ lookups[i].forecast = "ok"
       \/ settled'.request = "forecast" /\ lookups[i].weather = "ok"

\* the step renders weather or forecast, or saves last city / last update
RendersOrSaves ==
    \/ currentCity' # currentCity
    \/ shown' # shown
    \/ weatherVisible' /\ ~weatherVisible
    \/ ls'[LAST_CITY] # ls[LAST_CITY]
    \/ ls'[LAST_UPDATE] # ls[LAST_UPDATE]

\* C8: a lookup renders weather and forecast and saves the last city and the
\* last update only in the step in which both of its requests have succeeded;
\* when either request fails nothing is rendered or saved for that lookup,
\* the error message is visible and the weather content is hidden.
C8_RenderAfterBoth ==
    [][/\ RendersOrSaves => \E i \in 1..MaxLookups : CompletesBoth(i)
       /\ \A i \in 1..MaxLookups :
            (Settles(i) /\ settled'.outcome = "rejected") =>
                /\ currentCity' = currentCity
                /\ shown' = shown
                /\ ls' = ls
                /\ errorVisible'
                /\ ~weatherVisible']_vars

\* one lookup has rendered and saved, and a later one was rejected
C8_Witness ==
    /\ settled.outcome = "rejected"
    /\ errorVisible
    /\ ~weatherVisible
    /\ currentCity # Null
    /\ shown.forecast # ""
    /\ ls[LAST_CITY] # NoItem
    /\ ls[LAST_UPDATE] # NoItem

\* C9: a lookup the provider answers with 404 presents the city-not-found
\* message, and one it answers with 401 presents the invalid-API-key message.
C9_ErrorMessages ==
    [][\A i \in 1..MaxLookups :
          (Settles(i) /\ settled'.outcome = "rejected") =>
              /\ settled'.status = "404" => errorText' = MsgCityNotFound
              /\ settled'.status = "401" => errorText' = MsgInvalidKey]_vars

\* C12: when a lookup succeeds for a city whose name matches a stored favorite
\* ignoring case, that favorite takes the fetched temperature and icon and
\* gets a lastUpdated field, and keeps its position and its addedAt.
C12_FavoriteRefreshed ==
    [][\A i \in 1..MaxLookups :
         (CompletesBoth(i) /\ weatherVisible') =>
           LET weather == currentCity'.v
               before == FavoritesIn(ls)
               after == FavoritesIn(ls')
           IN  \A k \in 1..Len(before) :
                 SameName(before[k], Str(weather.city)) = "true" =>
                   /\ Len(after) = Len(before)
                   /\ after[k].temperature = weather.temperature
                   /\ after[k].icon = weather.icon
                   /\ "lastUpdated" \in DOMAIN after[k]
                   /\ after[k].addedAt = before[k].addedAt]_vars

\* the step starts the call of slot k
Starts(k) == lookups[k].state = "idle" /\ lookups'[k].state = "pending"

\* city, the argument of saveLastCity in the call of slot i
SavedName(i) ==
    IF lookups[i].kind = "coords"
    THEN WeatherOf("coords", lookups[i].query).city
    ELSE lookups[i].query

\* the step is the last answer of call i, arriving while the storage can be
\* written
AnsweredWritable(i) ==
    \/ WeatherResponds(i, "ok", IOk)
    \/ ForecastResponds(i, "ok", IOk)

\* C18: a call that starts leaves the calls in flight as they are, and each
\* call whose two requests succeed (and whose rendering runs through) puts
\* its own weather on display and in currentCity and, the storage taking the
\* write, in the saved last city, whatever other calls are in flight or have
\* rendered since it started: the call that completes last wins.
C18_LastCompletedWins ==
    [][\A i \in 1..MaxLookups :
         /\ Starts(i) => \A j \in 1..MaxLookups \ {i} : lookups'[j] = lookups[j]
         /\ (CompletesBoth(i) /\ weatherVisible') =>
              LET weather == WeatherOf(lookups[i].kind, lookups[i].query)
              IN  /\ currentCity' = Obj(weather)
                  /\ shown' = [city |-> weather.city, forecast |-> weather.city]
                  /\ AnsweredWritable(i) =>
                        Load(ls', LAST_CITY).v.name = SavedName(i)
                  /\ \A j \in 1..MaxLookups \ {i} : lookups'[j] = lookups[j]]_vars

\* the by-name call has completed after a by-coordinates call that rendered
\* while it was in flight, and its city is the one displayed and saved
C18_Witness ==
    /\ settled.outcome = "fulfilled"
    /\ settled.overlapped
    /\ \A i \in 1..MaxLookups : lookups[i].state = "idle"
    /\ currentCity = Obj(WeatherOf("city", "paris"))
    /\ shown.city = "Paris"
    /\ weatherVisible
    /\ Load(ls, LAST_CITY).v.name = "paris"

\* C24: whatever the interleaving of overlapping lookups that succeed or
\* fail, the error message and the weather content are never visible together.
C24_ErrorOrWeather == ~(errorVisible /\ weatherVisible)

\* every loadWeatherData / loadWeatherDataByCoords that started has finished
NoLookupInFlight == \A i \in 1..MaxLookups : lookups[i].state = "idle"

\* C28 as stated: whenever no weather lookup is in flight, the loading
\* indicator is hidden.
C28_HiddenWhenNoLookup == NoLookupInFlight => ~loadingVisible

\* C28, amended: whenever no weather lookup is in flight and no request for
\* the position of the device is pending, the loading indicator is hidden;
\* and, every request to the provider and every request for the position
\* being answered in the end, a loading indicator that is shown is hidden
\* later on.
C28_HiddenWhenIdle ==
    /\ []((NoLookupInFlight /\ geoPending = 0) => ~loadingVisible)
    /\ (loadingVisible ~> ~loadingVisible)

\* a lookup failed with a 404 while another was in flight, which succeeded
\* afterwards: nothing is pending any more and the loading indicator is hidden
C28_Witness ==
    /\ NoLookupInFlight
    /\ geoPending = 0
    /\ ~loadingVisible
    /\ settled.outcome = "fulfilled"
    /\ errorVisible
    /\ errorText = MsgCityNotFound

----------------------------------------------------------------------------
(* Properties of the page load and of the theme *)

\* the step is the page load
IsPageLoad == dataTheme = Null /\ dataTheme' # Null

\* the name of the last city stored, "" when there is none to read
StoredLastCityName ==
    LET lastCity == Load(ls, LAST_CITY)
    IN  IF lastCity.t = "object" /\ "name" \in DOMAIN lastCity.v
        THEN lastCity.v.name
        ELSE ""

\* C22: the page load starts exactly one lookup, for the stored last city,
\* when a last city with a non-empty name is stored, be the data stale or
\* fresh, and starts none when no last city is stored.
C22_LoadLastCity ==
    [][IsPageLoad =>
         /\ StoredLastCityName # "" =>
              \E i \in 1..MaxLookups :
                /\ Starts(i)
                /\ lookups'[i].kind = "city"
                /\ lookups'[i].query = StoredLastCityName
                /\ \A j \in 1..MaxLookups \ {i} : lookups'[j] = lookups[j]
         /\ ls[LAST_CITY] = NoItem => lookups' = lookups]_vars

\* the page has loaded with fresh data stored (updated at the time of the
\* load) and the lookup for the last city is in flight
C22_Witness ==
    /\ dataTheme # Null
    /\ now = 1
    /\ ls[LAST_UPDATE] = JsonText(Num(1))
    /\ ls[LAST_CITY] = JsonText(Obj([name |-> "paris", timestamp |-> 1]))
    /\ lookups[1] = [state |-> "pending", kind |-> "city", query |-> "paris",
                     weather |-> "pending", forecast |-> "pending"]
    /\ \A j \in 2..MaxLookups : lookups[j] = IdleSlot

\* C29: once the page is initialized, and after any number of theme toggles,
\* whatever theme value was stored before, the theme shown is light or dark
\* and the theme persisted is the theme shown; a toggle switches the theme
\* shown to the other of the two.
C29_ThemeLightOrDark ==
    /\ [](dataTheme # Null =>
            /\ dataTheme \in {Str("light"), Str("dark")}
            /\ Load(ls, THEME) = dataTheme)
    /\ [][(dataTheme # Null /\ dataTheme' # dataTheme) =>
            {dataTheme, dataTheme'} = {Str("light"), Str("dark")}]_vars

----------------------------------------------------------------------------
(* Properties of the favorite button *)

\* a city is current and the stored favorites hold its name, ignoring case
CurrentIsFavorite ==
    /\ currentCity # Null
    /\ Matches(FavoritesIn(ls), currentCity.v.city)

\* C26: after every handler that displays weather, toggles the favorite or
\* removes a favorite card, the favorite button is active exactly when the
\* current city is in the stored favorites, names compared ignoring case; as
\* long as no city has been displayed, a click on the favorite button adds no
\* favorite and leaves the button inactive.
C26_ButtonMatchesFavorites ==
    /\ [](favoriteBtnActive <=> CurrentIsFavorite)
    /\ [][(currentCity = Null /\ currentCity' = Null) =>
            /\ ~favoriteBtnActive'
            /\ Len(FavoritesIn(ls')) <= Len(FavoritesIn(ls))]_vars

\* London is displayed and was made a favorite by the button, after PARIS
C26_Witness ==
    /\ currentCity # Null
    /\ currentCity.v.city = "London"
    /\ favoriteBtnActive
    /\ Len(FavoritesIn(ls)) = 2
    /\ FavoritesIn(ls)[1].name = "PARIS"
    /\ FavoritesIn(ls)[2].name = "London"

============================================================================
